---- MODULE Spec2Model ----
(***************************************************************************)
(* Multi-agent chat hub of picoclaw (package channels): per-persona actor  *)
(* mailboxes, the ActorSystem registry, the MessageRouter, the             *)
(* ConversationManager with its idle reaper, and the outbound reply path.  *)
(*                                                                         *)
(* Objects that outlive their registry entry (a *Conversation handle held  *)
(* by a router call, an *ActorMailbox replaced by a second registration)   *)
(* live in heaps: `convs` and `boxes` are sequences indexed by object id,  *)
(* and the registries map a key to an object id (0 = absent).              *)
(***************************************************************************)
EXTENDS Integers, Sequences, FiniteSets, TLC

(***************************************************************************)
(* Bounds of the model.                                                    *)
(***************************************************************************)
MaxMsgs == 3        \* ActorMessages created in one run
MaxTime == 2        \* logical clock values 0..MaxTime
MaxConvs == 2       \* Conversation objects allocated in one run
MaxBoxes == 2       \* ActorMailbox objects allocated in one run
MboxBoxes == 1      \* mailboxes registered when the library is driven alone
MaxWorkers == 2     \* processLoop goroutines spawned per mailbox
MaxCap == 1         \* largest explicit mailbox capacity passed to RegisterAgent
GwMaxMsgs == 2      \* ActorMessages created in one run that includes Start
BcMaxMsgs == 1      \* the same in a run that also broadcasts
LcMaxMsgs == 2      \* the same in a run that goes on to Stop
MaxChunks == 2      \* chunks SendAsAgent splits one reply into
IdleTimeout == 1    \* cm.idleTimeout, in clock ticks
MaxTokens == 4      \* pieces a parsed text is put together from

(***************************************************************************)
(* Program constants.                                                      *)
(***************************************************************************)
DefaultCapacity == 100          \* NewActorMailbox: capacity <= 0
HubCapacity == 100              \* Start: RegisterAgent(agentType, 100)

AgentMaster == "master"
AgentDev == "dev"
AgentQA == "qa"
AgentPM == "pm"
AgentOps == "ops"
AllAgentTypes == <<AgentMaster, AgentDev, AgentQA, AgentPM, AgentOps>>

Human == ""                     \* From: empty string means human

ConvStateIdle == "idle"
ConvStateActive == "active"
ConvStateProcessing == "processing"
ConvStateClosed == "closed"

\* user ids on the chat server: a human, the gateway bot, the persona bots
HumanUser == "user1"
GatewayUserID == "bot-gateway"
AccountID ==
  [a \in {AgentMaster, AgentDev, AgentQA, AgentPM, AgentOps} |->
     CASE a = AgentMaster -> "bot-master"
       [] a = AgentDev -> "bot-dev"
       [] a = AgentQA -> "bot-qa"
       [] a = AgentPM -> "bot-pm"
       [] a = AgentOps -> "bot-ops"]

\* personas with a token configured: NewMultiAgentDiscordChannel creates
\* their sessions and keeps them in c.agentBots
AgentBots == {AgentMaster, AgentDev, AgentQA}

NoResult == [op |-> "none", mentions |-> <<>>, content |-> <<>>]

Range(s) == {s[i] : i \in DOMAIN s}

(***************************************************************************)
(* Inputs the environment draws from.                                      *)
(***************************************************************************)
Rooms == {"room1"}
\* the channel findMainChannel looks for by name
MainChannel == "room1"
\* personas the actor library registers when it runs alone
Personas == {AgentMaster, AgentDev}
\* target lists handed to RouteFromHuman (parseMentions output: distinct,
\* first-occurrence order, nil when nothing is mentioned); in the running
\* hub only the coordinator's bot has connected, so dev exercises the
\* unknown-persona path
TargetLists == {<<>>, <<AgentMaster, AgentDev>>}
\* mentions found in a persona reply (parseMentionsFromResponse output)
MentionLists == {<<>>, <<AgentMaster, AgentDev>>}
Procs == {"g1"}

(***************************************************************************)
(* Conversation (value operators on one Conversation record).              *)
(***************************************************************************)
NewConversationActive(channelID, t) ==
  [ChannelID |-> channelID, State |-> ConvStateActive, PendingCount |-> 0,
   Messages |-> <<>>, ActiveAgents |-> {}, LastActivity |-> t]

NewConversation(channelID, t) ==
  [ChannelID |-> channelID, State |-> ConvStateIdle, PendingCount |-> 0,
   Messages |-> <<>>, ActiveAgents |-> {}, LastActivity |-> t]

ConversationMessageAsHuman(id, from, to, isHuman) ==
  [ID |-> id, From |-> from, To |-> to, IsFromHuman |-> TRUE, Timestamp |-> 0,
   SenderID |-> ""]

\* SenderID is Metadata["sender_id"], "" when the entry has no metadata
ConversationMessage(id, from, to, isHuman) ==
  [ID |-> id, From |-> from, To |-> to, IsFromHuman |-> isHuman, Timestamp |-> 0,
   SenderID |-> ""]

AddMessageTouchOnly(c, msg, t) == [c EXCEPT !.LastActivity = t]

AddMessageAtFront(c, msg, t) ==
  [c EXCEPT !.Messages = <<[msg EXCEPT !.Timestamp = t]>> \o @,
            !.LastActivity = t]

AddMessage(c, msg, t) ==
  [c EXCEPT
     !.Messages = Append(@, [msg EXCEPT !.Timestamp = t]),
     !.LastActivity = t,
     !.State = IF @ = ConvStateIdle THEN ConvStateActive ELSE @,
     !.ActiveAgents = (@ \cup (IF ~msg.IsFromHuman /\ msg.From # Human
                                 THEN {msg.From} ELSE {}))
                        \cup Range(msg.To)]

IncrementPendingKeepState(c) == [c EXCEPT !.PendingCount = @ + 1]

IncrementPending(c) ==
  [c EXCEPT !.PendingCount = @ + 1, !.State = ConvStateProcessing]

DecrementPendingNoop(c) == c

DecrementPendingUnguarded(c) ==
  LET n == c.PendingCount - 1
  IN [c EXCEPT !.PendingCount = n,
               !.State = IF n = 0 THEN ConvStateActive ELSE @]

DecrementPendingToIdle(c) ==
  LET n == IF c.PendingCount > 0 THEN c.PendingCount - 1 ELSE c.PendingCount
  IN [c EXCEPT !.PendingCount = n,
               !.State = IF n = 0 THEN ConvStateIdle ELSE @]

DecrementPending(c) ==
  LET n == IF c.PendingCount > 0 THEN c.PendingCount - 1 ELSE c.PendingCount
  IN [c EXCEPT !.PendingCount = n,
               !.State = IF n = 0 THEN ConvStateActive ELSE @]

IsIdleAtLate(c, t) == c.PendingCount = 0 /\ t - c.LastActivity > IdleTimeout + 1

\* the reaper's test (cleanupIdleConversations, under conv.mu.RLock)
IsIdleAt(c, t) == c.PendingCount = 0 /\ t - c.LastActivity > IdleTimeout

(***************************************************************************)
(* ActorMailbox (value operators on one mailbox record).                   *)
(***************************************************************************)
NewActorMailbox(agent, capacity) ==
  [agent |-> agent, messages |-> <<>>,
   capacity |-> IF capacity <= 0 THEN DefaultCapacity ELSE capacity,
   cancelled |-> FALSE, closed |-> FALSE, handler |-> "nil"]

ActorMessage(id, from, to, channelID) ==
  [ID |-> id, From |-> from, To |-> to, ChannelID |-> channelID]

\* outcome of the select in Send: a send on a closed channel panics, a send
\* on a full buffer falls to the default case, otherwise the message is
\* buffered at the tail
SendResultNoLimit(b) == IF b.closed THEN "panic" ELSE "ok"

SendResult(b) ==
  IF b.closed THEN "panic"
  ELSE IF Len(b.messages) < b.capacity THEN "ok" ELSE "full"

SendBox(b, msg) ==
  IF SendResult(b) = "ok" THEN [b EXCEPT !.messages = Append(@, msg)] ELSE b

(***************************************************************************)
(* Mention parsing.  A text is a sequence of characters, each a string:   *)
(* an ASCII character stands for itself, a character outside ASCII (and   *)
(* the vertical tab) is written as its code point, "U+00C9".  The gateway *)
(* parses human utterances with mentionRegex,                             *)
(* (?i)@(master|dev|qa|pm|ops)\b; the reply side uses strings.Contains    *)
(* and strings.ReplaceAll on the lower-cased text.                        *)
(***************************************************************************)
UpperCase == <<"A", "B", "C", "D", "E", "F", "G", "H", "I", "J", "K", "L", "M",
               "N", "O", "P", "Q", "R", "S", "T", "U", "V", "W", "X", "Y", "Z">>
LowerCase == <<"a", "b", "c", "d", "e", "f", "g", "h", "i", "j", "k", "l", "m",
               "n", "o", "p", "q", "r", "s", "t", "u", "v", "w", "x", "y", "z">>
Digits == {"0", "1", "2", "3", "4", "5", "6", "7", "8", "9"}

\* string(agent) as characters
Chars(a) ==
  CASE a = AgentMaster -> <<"m", "a", "s", "t", "e", "r">>
    [] a = AgentDev -> <<"d", "e", "v">>
    [] a = AgentQA -> <<"q", "a">>
    [] a = AgentPM -> <<"p", "m">>
    [] a = AgentOps -> <<"o", "p", "s">>

\* characters outside ASCII that the texts are made of: E acute, e acute,
\* the Kelvin sign, the long s, next line, no-break space
EAcuteUpper == "U+00C9"
EAcuteLower == "U+00E9"
KelvinSign == "U+212A"
LongS == "U+017F"

\* unicode.ToLower
LowerChar(ch) ==
  IF \E k \in 1..Len(UpperCase) : UpperCase[k] = ch
    THEN LowerCase[CHOOSE k \in 1..Len(UpperCase) : UpperCase[k] = ch]
  ELSE IF ch = EAcuteUpper THEN EAcuteLower
  ELSE IF ch = KelvinSign THEN "k"
  ELSE ch

\* the member of the simple case folding orbit of ch that a pattern
\* written in lower case names: s, S and the long s fold together, as do
\* k, K and the Kelvin sign
FoldChar(ch) == IF ch = LongS THEN "s" ELSE LowerChar(ch)

\* strings.ToLower
ToLower(s) == [i \in 1..Len(s) |-> LowerChar(s[i])]

\* \w of the regexp package
IsWordChar(ch) ==
  ch \in Range(UpperCase) \cup Range(LowerCase) \cup Digits \cup {"_"}

\* unicode.IsSpace on the characters of the texts
IsSpace(ch) ==
  ch \in {" ", "\t", "\n", "\r", "\f", "U+000B", "U+0085", "U+00A0"}

HasPrefixAt(s, i, pat) ==
  /\ i + Len(pat) - 1 <= Len(s)
  /\ SubSeq(s, i, i + Len(pat) - 1) = pat

\* strings.Contains
Contains(s, pat) == \E i \in 1..Len(s) + 1 : HasPrefixAt(s, i, pat)

\* strings.TrimSpace
TrimSpace(s) ==
  LET keep == {i \in 1..Len(s) : ~IsSpace(s[i])}
  IN IF keep = {} THEN <<>>
     ELSE SubSeq(s, CHOOSE i \in keep : \A j \in keep : i <= j,
                    CHOOSE i \in keep : \A j \in keep : j <= i)

\* "@" + string(agent)
Pattern(a) == <<"@">> \o Chars(a)

\* \b of the regexp package before position j: exactly one of the
\* characters at j - 1 and j is an ASCII word character
IsWordAt(s, j) == j \in 1..Len(s) /\ IsWordChar(s[j])

AtWordBoundary(s, j) == IsWordAt(s, j - 1) # IsWordAt(s, j)

\* mentionRegex matches persona a at position i: "@", the name with every
\* letter in any member of its case folding orbit, then a word boundary
RegexMatchesAt(s, i, a) ==
  /\ HasPrefixAt([k \in 1..Len(s) |-> FoldChar(s[k])], i, Pattern(a))
  /\ AtWordBoundary(s, i + Len(Pattern(a)))

\* the alternative of mentionRegex that matches at position i, "" if none
RegexAt(s, i) ==
  IF \E k \in 1..Len(AllAgentTypes) : RegexMatchesAt(s, i, AllAgentTypes[k])
    THEN AllAgentTypes[CHOOSE k \in 1..Len(AllAgentTypes) :
                         RegexMatchesAt(s, i, AllAgentTypes[k])]
    ELSE ""

\* mentionRegex.FindAllStringSubmatch: the submatches match[1] from
\* position i on, leftmost first and not overlapping
RECURSIVE FindAllStringSubmatch(_, _)
FindAllStringSubmatch(s, i) ==
  IF i > Len(s) THEN <<>>
  ELSE IF RegexAt(s, i) # ""
    THEN <<SubSeq(s, i + 1, i + Len(Chars(RegexAt(s, i))))>> \o
           FindAllStringSubmatch(s, i + Len(Pattern(RegexAt(s, i))))
    ELSE FindAllStringSubmatch(s, i + 1)

\* mentionRegex.ReplaceAllString(content, "") from position i on
RECURSIVE ReplaceAllString(_, _)
ReplaceAllString(s, i) ==
  IF i > Len(s) THEN <<>>
  ELSE IF RegexAt(s, i) # ""
    THEN ReplaceAllString(s, i + Len(Pattern(RegexAt(s, i))))
    ELSE <<s[i]>> \o ReplaceAllString(s, i + 1)

\* AgentType(str): the string the characters spell
RECURSIVE AgentTypeOf(_)
AgentTypeOf(chars) ==
  IF chars = <<>> THEN "" ELSE Head(chars) \o AgentTypeOf(Tail(chars))

\* the loop of parseMentions: AgentType(strings.ToLower(match[1])) of every
\* match, appended if not seen before
RECURSIVE AppendUnseen(_, _)
AppendUnseen(matches, agents) ==
  IF matches = <<>> THEN agents
  ELSE LET agentType == AgentTypeOf(ToLower(Head(matches)))
       IN AppendUnseen(Tail(matches),
                       IF agentType \in Range(agents) THEN agents
                       ELSE Append(agents, agentType))

parseMentionsAll(content) ==
  LET m == FindAllStringSubmatch(content, 1)
  IN [k \in 1..Len(m) |-> AgentTypeOf(ToLower(m[k]))]

parseMentions(content) ==
  AppendUnseen(FindAllStringSubmatch(content, 1), <<>>)

cleanMentions(content) == TrimSpace(ReplaceAllString(content, 1))

\* strings.ReplaceAll(s, pat, "") from position i on
RECURSIVE ReplaceAll(_, _, _)
ReplaceAll(s, pat, i) ==
  IF i > Len(s) THEN <<>>
  ELSE IF HasPrefixAt(s, i, pat) THEN ReplaceAll(s, pat, i + Len(pat))
  ELSE <<s[i]>> \o ReplaceAll(s, pat, i + 1)

parseMentionsFromResponse(content) ==
  SelectSeq(AllAgentTypes,
            LAMBDA a : Contains(ToLower(content), Pattern(a)))

\* the loop of cleanMentionsFromResponse after its first k personas
RECURSIVE CleanedUpTo(_, _)
CleanedUpTo(content, k) ==
  IF k = 0 THEN content
  ELSE ReplaceAll(ToLower(CleanedUpTo(content, k - 1)),
                  Pattern(AllAgentTypes[k]), 1)

cleanMentionsFromResponse(content) ==
  TrimSpace(CleanedUpTo(content, Len(AllAgentTypes)))

VARIABLES
  boxes,          \* heap of ActorMailbox objects
  workers,        \* workers[b]: the processLoop goroutines of mailbox b
  mailboxes,      \* ActorSystem.mailboxes: persona -> mailbox id (0 = absent)
  convs,          \* heap of Conversation objects
  conversations,  \* ConversationManager.conversations: room -> conv id (0 = absent)
  cmLock,         \* holder of cm.mu across steps: "free" or "reaper"
  cmCancelled,    \* cm.ctx is cancelled (ConversationManager.Stop)
  reaper,         \* the cleanupLoop goroutine
  now,            \* time.Now()
  procs,          \* gateway goroutines running router / outbound calls
  bus,            \* inbound requests published to the LLM bus, not yet answered
  sent,           \* sent[id]: mailbox and outcome of the send of message id
  handled,        \* handled[b]: log of the handler invocations of mailbox b
  panicked,       \* an unrecovered panic has ended the process
  posted,         \* messages posted to the chat server: [by, room]
  botUserID,      \* AgentBot.botUserID of every persona ("" = never set)
  running,        \* MultiAgentDiscordChannel.running
  mainChannelID,  \* MultiAgentDiscordChannel.mainChannelID ("" = not found)
  convLock,       \* convLock[c]: holder of the c.mu of Conversation c, or "free"
  text,           \* a message text handed to the mention parsers
  result          \* what the parsers made of text

vars == <<boxes, workers, mailboxes, convs, conversations, cmLock, cmCancelled,
          reaper, now, procs, bus, sent, handled, panicked, posted, botUserID,
          running, mainChannelID, convLock, text, result>>

mboxVars == <<boxes, workers, mailboxes>>
convVars == <<convs, conversations>>
chatVars == <<posted, botUserID, running, mainChannelID>>
textVars == <<text, result>>

\* base and hist remember PendingCount and Len(Messages) of the conversation
\* the call obtained, as they were when it obtained it; content is the text
\* of the chat event a gateway handler is working on
IdleProc ==
  [pc |-> "idle", room |-> "", from |-> Human, targets |-> <<>>, i |-> 0,
   conv |-> 0, id |-> 0, errs |-> 0, base |-> 0, hist |-> 0,
   sender |-> "", gw |-> FALSE, box |-> 0, content |-> <<>>]

\* NewActorSystem, NewConversationManager: nothing registered, no room, the
\* reaper waiting for its first tick
NoActors ==
  /\ boxes = <<>>
  /\ workers = <<>>
  /\ mailboxes = [a \in Range(AllAgentTypes) |-> 0]
  /\ convs = <<>>
  /\ conversations = [r \in Rooms |-> 0]
  /\ cmLock = "free"
  /\ convLock = [c \in 1..MaxConvs |-> "free"]
  /\ cmCancelled = FALSE
  /\ reaper = [pc |-> "wait", todo |-> {}, toDelete |-> {}, now |-> 0]
  /\ now = 0
  /\ procs = [p \in Procs |-> IdleProc]
  /\ bus = {}
  /\ sent = <<>>
  /\ handled = <<>>
  /\ panicked = FALSE
  /\ posted = {}
  /\ running = FALSE
  /\ mainChannelID = ""
  /\ botUserID = [a \in Range(AllAgentTypes) |-> ""]

InitActors ==
  /\ NoActors
  /\ text = <<>>
  /\ result = NoResult


Live == ~panicked
nextId == Len(sent) + 1
BoxIds == 1..Len(boxes)
ConvIds == 1..Len(convs)
Capacities == 0..MaxCap          \* 0 selects DefaultCapacity

\* a call of goroutine p stands at pc
At(p, pc) == Live /\ procs[p].pc = pc

EffectiveTargets(targets) ==
  IF Len(targets) = 0 THEN <<AgentMaster>> ELSE targets

\* messages a running call may still create
Reserved(p) ==
  IF procs[p].pc \in {"idle", "gw_publish", "bc_loop", "gw_filter", "gw_typing",
                      "gw_route", "cs_post",
                      "st_find", "st_write", "st_bots", "st_reg", "st_run",
                      "st_done", "sp_all", "sp_cm", "sp_close", "sp_done"} THEN 0
  ELSE IF procs[p].pc \in {"swt_wait", "route_send"} THEN 1
  ELSE IF procs[p].pc = "rfh_add" THEN Len(EffectiveTargets(procs[p].targets))
  ELSE Len(procs[p].targets) - procs[p].i + 1

RECURSIVE SumReserved(_)
SumReserved(ps) ==
  IF ps = {} THEN 0
  ELSE LET p == CHOOSE q \in ps : TRUE
       IN Reserved(p) + SumReserved(ps \ {p})

MsgBudget(n) == Len(sent) + SumReserved(DOMAIN procs) + n <= MaxMsgs

(***************************************************************************)
(* ActorSystem and ActorMailbox lifecycle.                                 *)
(***************************************************************************)
RegisterAgent(agent, capacity) ==
  /\ Live
  /\ Len(boxes) < MaxBoxes
  /\ boxes' = Append(boxes, NewActorMailbox(agent, capacity))
  /\ workers' = Append(workers, <<>>)
  /\ handled' = Append(handled, <<>>)
  /\ mailboxes' = [mailboxes EXCEPT ![agent] = Len(boxes) + 1]
  /\ UNCHANGED <<textVars, convLock, chatVars, convVars, cmLock, cmCancelled, reaper, now, procs, bus,
                 sent, panicked>>

\* ActorMailbox.SetHandler through a mailbox handle
SetHandler(b, h) ==
  /\ Live
  /\ boxes' = [boxes EXCEPT ![b].handler = h]
  /\ UNCHANGED <<textVars, convLock, chatVars, workers, mailboxes, convVars, cmLock, cmCancelled, reaper,
                 now, procs, bus, sent, handled, panicked>>

\* MultiAgentDiscordChannel.SetAgentHandler as called by setupHandlers:
\* installs handleAgentMessage on the mailbox registered for the persona
SetAgentHandler(agent) ==
  /\ mailboxes[agent] # 0
  /\ SetHandler(mailboxes[agent], "agent")

\* conv and ctx: the *Conversation and the recent messages that
\* handleAgentMessage holds while it runs on the worker
NewWorker ==
  [pc |-> "select", msg |-> ActorMessage(0, Human, Human, ""), late |-> FALSE,
   conv |-> 0, ctx |-> <<>>]

StartBox(ws) == Append(ws, NewWorker)

Start(b) ==
  /\ Live
  /\ Len(workers[b]) < MaxWorkers
  /\ workers' = [workers EXCEPT ![b] = StartBox(@)]
  /\ UNCHANGED <<textVars, convLock, chatVars, boxes, mailboxes, convVars, cmLock, cmCancelled, reaper, now,
                 procs, bus, sent, handled, panicked>>

Registered == {mailboxes[a] : a \in Range(AllAgentTypes)} \ {0}

\* mailbox, ok := s.mailboxes[agent] for any AgentType value: 0 when the
\* map has no such key
MailboxOf(agent) ==
  IF agent \in DOMAIN mailboxes THEN mailboxes[agent] ELSE 0

StartAll ==
  /\ Live
  /\ Registered # {}
  /\ \A b \in Registered : Len(workers[b]) < MaxWorkers
  /\ workers' = [b \in BoxIds |->
                   IF b \in Registered THEN StartBox(workers[b]) ELSE workers[b]]
  /\ UNCHANGED <<textVars, convLock, chatVars, boxes, mailboxes, convVars, cmLock, cmCancelled, reaper, now,
                 procs, bus, sent, handled, panicked>>

\* cancel() then close(m.messages); close of a closed channel panics
StopBox(b) == [b EXCEPT !.cancelled = TRUE, !.closed = TRUE]

Stop(b) ==
  /\ Live
  /\ boxes' = [boxes EXCEPT ![b] = StopBox(@)]
  /\ panicked' = boxes[b].closed
  /\ UNCHANGED <<textVars, convLock, chatVars, workers, mailboxes, convVars, cmLock, cmCancelled, reaper,
                 now, procs, bus, sent, handled>>

\* StopAll ranges over the map in an order the runtime picks: the
\* mailboxes stopped are a set of open ones, all of them unless the loop
\* meets a mailbox that is already closed and panics there
StopAllStops ==
  LET open == {b \in Registered : ~boxes[b].closed}
  IN IF open = Registered THEN {Registered} ELSE SUBSET open

StopAll ==
  /\ Live
  /\ Registered # {}
  /\ \E S \in StopAllStops :
       boxes' = [b \in BoxIds |-> IF b \in S THEN StopBox(boxes[b]) ELSE boxes[b]]
  /\ panicked' = (\E b \in Registered : boxes[b].closed)
  /\ UNCHANGED <<textVars, convLock, chatVars, workers, mailboxes, convVars, cmLock, cmCancelled, reaper,
                 now, procs, bus, sent, handled>>

(***************************************************************************)
(* Send and Route.                                                         *)
(***************************************************************************)
\* ActorMailbox.Send through a mailbox handle
Send(b, room) ==
  /\ Live
  /\ MsgBudget(1)
  /\ LET msg == ActorMessage(nextId, Human, boxes[b].agent, room)
         res == SendResult(boxes[b])
     IN /\ boxes' = [boxes EXCEPT ![b] = SendBox(@, msg)]
        /\ sent' = Append(sent, [box |-> b, res |-> res])
        /\ panicked' = (res = "panic")
  /\ UNCHANGED <<textVars, convLock, chatVars, workers, mailboxes, convVars, cmLock, cmCancelled, reaper,
                 now, procs, bus, handled>>

\* ActorMailbox.SendWithTimeout through a mailbox handle: the call enters
\* its select and waits there
SendWithTimeout(p, b, room) ==
  /\ At(p, "idle")
  /\ MsgBudget(1)
  /\ procs' = [procs EXCEPT ![p] =
                 [IdleProc EXCEPT !.pc = "swt_wait", !.box = b, !.room = room]]
  /\ UNCHANGED <<textVars, convLock, chatVars, mboxVars, convVars, cmLock, cmCancelled, reaper, now,
                 bus, sent, handled, panicked>>

\* case m.messages <- msg: taken when the buffer has room, and with a panic
\* when the channel is closed
SwtEnqueue(p) ==
  /\ At(p, "swt_wait")
  /\ SendResult(boxes[procs[p].box]) # "full"
  /\ LET b == procs[p].box
         msg == ActorMessage(nextId, Human, boxes[b].agent, procs[p].room)
         res == SendResult(boxes[b])
     IN /\ boxes' = [boxes EXCEPT ![b] = SendBox(@, msg)]
        /\ sent' = Append(sent, [box |-> b, res |-> res])
        /\ panicked' = (res = "panic")
  /\ procs' = [procs EXCEPT ![p] = IdleProc]
  /\ UNCHANGED <<textVars, convLock, chatVars, workers, mailboxes, convVars, cmLock, cmCancelled, reaper,
                 now, bus, handled>>

\* case <-time.After(timeout): the message is not enqueued
SwtTimeout(p) ==
  /\ At(p, "swt_wait")
  /\ sent' = Append(sent, [box |-> procs[p].box, res |-> "timeout"])
  /\ procs' = [procs EXCEPT ![p] = IdleProc]
  /\ UNCHANGED <<textVars, convLock, chatVars, mboxVars, convVars, cmLock, cmCancelled, reaper, now,
                 bus, handled, panicked>>

\* ActorSystem.Route as the router calls it while the registry does not
\* change: outcome and effect on the mailbox heap
RouteResult(msg) ==
  IF MailboxOf(msg.To) = 0 THEN "unregistered"
  ELSE SendResult(boxes[MailboxOf(msg.To)])

RouteBoxes(msg) ==
  IF MailboxOf(msg.To) = 0 THEN boxes
  ELSE [boxes EXCEPT ![MailboxOf(msg.To)] = SendBox(@, msg)]

\* ActorSystem.Route: the lookup under s.mu.RLock; an unregistered persona
\* is the error return, otherwise the call goes on with the mailbox it read
Route(p, to, room) ==
  /\ At(p, "idle")
  /\ MsgBudget(1)
  /\ IF MailboxOf(to) = 0
       THEN /\ sent' = Append(sent, [box |-> 0, res |-> "unregistered"])
            /\ UNCHANGED procs
       ELSE /\ procs' = [procs EXCEPT ![p] =
                           [IdleProc EXCEPT !.pc = "route_send", !.room = room,
                                            !.box = MailboxOf(to)]]
            /\ UNCHANGED sent
  /\ UNCHANGED <<textVars, convLock, chatVars, mboxVars, convVars, cmLock, cmCancelled, reaper, now,
                 bus, handled, panicked>>

\* ActorSystem.Route: return mailbox.Send(msg), after s.mu.RUnlock
RouteSend(p) ==
  /\ At(p, "route_send")
  /\ LET b == procs[p].box
         msg == ActorMessage(nextId, Human, boxes[b].agent, procs[p].room)
         res == SendResult(boxes[b])
     IN /\ boxes' = [boxes EXCEPT ![b] = SendBox(@, msg)]
        /\ sent' = Append(sent, [box |-> b, res |-> res])
        /\ panicked' = (res = "panic")
  /\ procs' = [procs EXCEPT ![p] = IdleProc]
  /\ UNCHANGED <<textVars, convLock, chatVars, workers, mailboxes, convVars, cmLock, cmCancelled, reaper,
                 now, bus, handled>>

(***************************************************************************)
(* processLoop: one step per select, one per processMessage.               *)
(***************************************************************************)
AtSelect(b, w) == Live /\ workers[b][w].pc = "select"
AtProcess(b, w) == Live /\ workers[b][w].pc = "process"

\* case <-m.ctx.Done(): return
WorkerCtxDone(b, w) ==
  /\ AtSelect(b, w)
  /\ boxes[b].cancelled
  /\ workers' = [workers EXCEPT ![b][w].pc = "exited"]
  /\ UNCHANGED <<textVars, convLock, chatVars, boxes, mailboxes, convVars, cmLock, cmCancelled, reaper, now,
                 procs, bus, sent, handled, panicked>>

\* case msg, ok := <-m.messages with a buffered message (a closed channel
\* still delivers what is buffered)
WorkerReceive(b, w) ==
  /\ AtSelect(b, w)
  /\ Len(boxes[b].messages) > 0
  /\ workers' = [workers EXCEPT ![b][w] =
                   [NewWorker EXCEPT !.pc = "process",
                                     !.msg = Head(boxes[b].messages),
                                     !.late = boxes[b].closed]]
  /\ boxes' = [boxes EXCEPT ![b].messages = Tail(@)]
  /\ UNCHANGED <<textVars, convLock, chatVars, mailboxes, convVars, cmLock, cmCancelled, reaper, now, procs,
                 bus, sent, handled, panicked>>

\* case msg, ok := <-m.messages with ok = false: closed and drained
WorkerChanClosed(b, w) ==
  /\ AtSelect(b, w)
  /\ boxes[b].closed
  /\ Len(boxes[b].messages) = 0
  /\ workers' = [workers EXCEPT ![b][w].pc = "exited"]
  /\ UNCHANGED <<textVars, convLock, chatVars, boxes, mailboxes, convVars, cmLock, cmCancelled, reaper, now,
                 procs, bus, sent, handled, panicked>>

Invocation(b, w, err) ==
  [id |-> workers[b][w].msg.ID, late |-> workers[b][w].late, err |-> err]

\* a processLoop that returns when the handler gave an error
AfterHandlerExitOnError(err) == IF err THEN "exited" ELSE "select"

\* a processMessage that never comes back from the handler
AfterHandlerBlocked(err) == "blocked"

\* where the worker stands after handler(msg) returned err: processMessage
\* logs the error and returns, processLoop goes round its for loop again
AfterHandler(err) == "select"

\* processMessage with no handler set: warn and drop
ProcessNoHandler(b, w) ==
  /\ AtProcess(b, w)
  /\ boxes[b].handler = "nil"
  /\ workers' = [workers EXCEPT ![b][w].pc = "select"]
  /\ UNCHANGED <<textVars, convLock, chatVars, boxes, mailboxes, convVars, cmLock, cmCancelled, reaper, now,
                 procs, bus, sent, handled, panicked>>

\* processMessage with a caller-supplied handler; its error is only logged
ProcessUserHandler(b, w, err) ==
  /\ AtProcess(b, w)
  /\ boxes[b].handler = "user"
  /\ handled' = [handled EXCEPT ![b] = Append(@, Invocation(b, w, err))]
  /\ workers' = [workers EXCEPT ![b][w].pc = AfterHandler(err)]
  /\ UNCHANGED <<textVars, convLock, chatVars, boxes, mailboxes, convVars, cmLock, cmCancelled, reaper, now,
                 procs, bus, sent, panicked>>

NextMbox ==
  \/ \E a \in Personas, c \in Capacities :
       /\ Len(boxes) < MboxBoxes
       /\ RegisterAgent(a, c)
  \/ \E b \in BoxIds : SetHandler(b, "user")
  \/ \E b \in BoxIds : Start(b)
  \/ \E b \in BoxIds : Stop(b)
  \/ StartAll
  \/ StopAll
  \/ \E b \in BoxIds, r \in Rooms : Send(b, r)
  \/ \E p \in Procs, b \in BoxIds, r \in Rooms : SendWithTimeout(p, b, r)
  \/ \E p \in Procs : SwtEnqueue(p)
  \/ \E p \in Procs : SwtTimeout(p)
  \/ \E p \in Procs, a \in Personas \cup {AgentQA}, r \in Rooms : Route(p, a, r)
  \/ \E p \in Procs : RouteSend(p)
  \/ \E b \in BoxIds, w \in 1..MaxWorkers :
       /\ w <= Len(workers[b])
       /\ \/ WorkerCtxDone(b, w)
          \/ WorkerReceive(b, w)
          \/ WorkerChanClosed(b, w)
          \/ ProcessNoHandler(b, w)
          \/ \E err \in BOOLEAN : ProcessUserHandler(b, w, err)

\* the actor library driven through its own API
SpecMbox == InitActors /\ [][NextMbox]_vars


(***************************************************************************)
(* ConversationManager.                                                    *)
(***************************************************************************)
Unregistered == {r \in Rooms : conversations[r] = 0}

\* GetOrCreateConversation takes cm.mu; a new object needs room in the heap
\* a GetOrCreateConversation that does not take cm.mu
CanGetOrCreateUnlocked(room) ==
  conversations[room] # 0 \/ Len(convs) < MaxConvs

CanGetOrCreate(room) ==
  /\ cmLock = "free"
  /\ conversations[room] # 0 \/ Len(convs) < MaxConvs

GetOrCreateHandle(room) ==
  IF conversations[room] # 0 THEN conversations[room] ELSE Len(convs) + 1

GetOrCreateConvs(room) ==
  IF conversations[room] # 0 THEN convs
  ELSE Append(convs, NewConversation(room, now))

\* PendingCount and Len(Messages) of what GetOrCreateConversation returns
GetOrCreatePending(room) ==
  IF conversations[room] # 0 THEN convs[conversations[room]].PendingCount ELSE 0

GetOrCreateHistory(room) ==
  IF conversations[room] # 0 THEN Len(convs[conversations[room]].Messages) ELSE 0

GetOrCreateRegistry(room) ==
  [conversations EXCEPT ![room] = GetOrCreateHandle(room)]

CloseConversation(room) ==
  /\ Live
  /\ cmLock = "free"
  /\ conversations[room] # 0
  /\ convs' = [convs EXCEPT ![conversations[room]].State = ConvStateClosed]
  /\ conversations' = [conversations EXCEPT ![room] = 0]
  /\ UNCHANGED <<textVars, convLock, chatVars, mboxVars, cmLock, cmCancelled, reaper, now, procs, bus, sent,
                 handled, panicked>>

\* ConversationManager.Stop: cancels cm.ctx, nothing else
CmStop ==
  /\ Live
  /\ ~cmCancelled
  /\ cmCancelled' = TRUE
  /\ UNCHANGED <<textVars, convLock, chatVars, mboxVars, convVars, cmLock, reaper, now, procs, bus, sent,
                 handled, panicked>>

Tick ==
  /\ Live
  /\ now < MaxTime
  /\ now' = now + 1
  /\ UNCHANGED <<textVars, convLock, chatVars, mboxVars, convVars, cmLock, cmCancelled, reaper, procs, bus,
                 sent, handled, panicked>>

(***************************************************************************)
(* cleanupLoop and cleanupIdleConversations.  The scan holds cm.mu from    *)
(* its first to its last step and takes each conv.mu only for one read or  *)
(* one write.                                                              *)
(***************************************************************************)
ReaperWaiting == [pc |-> "wait", todo |-> {}, toDelete |-> {}, now |-> 0]

\* case <-cm.ctx.Done(): return
ReaperExit ==
  /\ Live
  /\ reaper.pc = "wait"
  /\ cmCancelled
  /\ reaper' = [reaper EXCEPT !.pc = "exited"]
  /\ UNCHANGED <<textVars, convLock, chatVars, mboxVars, convVars, cmLock, cmCancelled, now, procs, bus,
                 sent, handled, panicked>>

\* case <-ticker.C: cm.mu.Lock(); now := time.Now()
ReaperTick ==
  /\ Live
  /\ reaper.pc = "wait"
  /\ cmLock = "free"
  /\ IF Unregistered = Rooms
       THEN UNCHANGED <<reaper, cmLock>>
       ELSE /\ reaper' = [pc |-> "scan", todo |-> Rooms \ Unregistered,
                          toDelete |-> {}, now |-> now]
            /\ cmLock' = "reaper"
  /\ UNCHANGED <<textVars, convLock, chatVars, mboxVars, convVars, cmCancelled, now, procs, bus, sent,
                 handled, panicked>>

\* first loop: isIdle := conv.PendingCount == 0 && now.Sub(LastActivity) > IdleTimeout
ReaperScan(room) ==
  /\ Live
  /\ reaper.pc = "scan"
  /\ room \in reaper.todo
  /\ LET del == IF IsIdleAt(convs[conversations[room]], reaper.now)
                  THEN reaper.toDelete \cup {room} ELSE reaper.toDelete
         todo == reaper.todo \ {room}
     IN IF todo = {} /\ del = {}
          THEN reaper' = ReaperWaiting /\ cmLock' = "free"
          ELSE /\ reaper' = [reaper EXCEPT !.todo = todo, !.toDelete = del,
                                           !.pc = IF todo = {} THEN "close" ELSE "scan"]
               /\ UNCHANGED cmLock
  /\ UNCHANGED <<textVars, convLock, chatVars, mboxVars, convVars, cmCancelled, now, procs, bus, sent,
                 handled, panicked>>

\* second loop: conv.State = ConvStateClosed; delete(cm.conversations, channelID)
ReaperClose(room) ==
  /\ Live
  /\ reaper.pc = "close"
  /\ room \in reaper.toDelete
  /\ convs' = [convs EXCEPT ![conversations[room]].State = ConvStateClosed]
  /\ conversations' = [conversations EXCEPT ![room] = 0]
  /\ IF reaper.toDelete = {room}
       THEN reaper' = ReaperWaiting /\ cmLock' = "free"
       ELSE reaper' = [reaper EXCEPT !.toDelete = @ \ {room}] /\ UNCHANGED cmLock
  /\ UNCHANGED <<textVars, convLock, chatVars, mboxVars, cmCancelled, now, procs, bus, sent, handled, panicked>>


(***************************************************************************)
(* MessageRouter and the outbound path, one step per lock-protected call.  *)
(* A call keeps the *Conversation it looked up in procs[p].conv.           *)
(***************************************************************************)
OnConv(p, f) == [convs EXCEPT ![procs[p].conv] = f]

\* a call made by handleGatewayMessage returns into it, any other call ends
Return(p, errs) ==
  IF procs[p].gw THEN [procs[p] EXCEPT !.pc = "gw_publish", !.errs = errs]
  ELSE IdleProc

\* after target i: the next target, or the call returns
Advance(p, errs, pc) ==
  IF procs[p].i < Len(procs[p].targets)
    THEN [procs[p] EXCEPT !.i = @ + 1, !.pc = pc, !.errs = errs]
    ELSE Return(p, errs)

\* RouteFromHuman: conv := GetOrCreateConversation(channelID)
\* gw: the call is made by handleGatewayMessage, which stands at its call
\* of the router
RouteFromHumanBy(p, targets, room, senderID, gw) ==
  /\ At(p, IF gw THEN "gw_route" ELSE "idle")
  /\ CanGetOrCreate(room)
  /\ MsgBudget(Len(EffectiveTargets(targets)))
  /\ convs' = GetOrCreateConvs(room)
  /\ conversations' = GetOrCreateRegistry(room)
  /\ procs' = [procs EXCEPT ![p] =
                 [IdleProc EXCEPT !.pc = "rfh_add", !.room = room,
                                  !.targets = targets, !.i = 1,
                                  !.conv = GetOrCreateHandle(room),
                                  !.base = GetOrCreatePending(room),
                                  !.hist = GetOrCreateHistory(room),
                                  !.sender = senderID, !.gw = gw,
                                  !.content = procs[p].content]]
  /\ UNCHANGED <<textVars, convLock, chatVars, mboxVars, cmLock, cmCancelled, reaper, now, bus, sent,
                 handled, panicked>>

RouteFromHuman(p, targets, room, senderID) ==
  RouteFromHumanBy(p, targets, room, senderID, FALSE)

\* conv.AddMessage({From: "", To: targets, IsFromHuman: true}); then the
\* default to the coordinator
RfhAddMessage(p) ==
  /\ At(p, "rfh_add")
  /\ convs' = OnConv(p, AddMessage(convs[procs[p].conv],
                 [ConversationMessage(0, Human, procs[p].targets, TRUE)
                    EXCEPT !.SenderID = procs[p].sender], now))
  /\ procs' = [procs EXCEPT ![p].targets = EffectiveTargets(@),
                            ![p].pc = "rfh_inc"]
  /\ UNCHANGED <<textVars, convLock, chatVars, mboxVars, conversations, cmLock, cmCancelled, reaper, now,
                 bus, sent, handled, panicked>>

RfhIncrement(p) ==
  /\ At(p, "rfh_inc")
  /\ convs' = OnConv(p, IncrementPending(convs[procs[p].conv]))
  /\ procs' = [procs EXCEPT ![p].pc = "rfh_route"]
  /\ UNCHANGED <<textVars, convLock, chatVars, mboxVars, conversations, cmLock, cmCancelled, reaper, now,
                 bus, sent, handled, panicked>>

RfhRoute(p) ==
  /\ At(p, "rfh_route")
  /\ LET msg == ActorMessage(nextId, Human, procs[p].targets[procs[p].i],
                             procs[p].room)
         res == RouteResult(msg)
     IN /\ boxes' = RouteBoxes(msg)
        /\ sent' = Append(sent, [box |-> MailboxOf(msg.To), res |-> res])
        /\ panicked' = (res = "panic")
        /\ procs' = [procs EXCEPT ![p] =
                       IF res = "ok" THEN Advance(p, procs[p].errs, "rfh_inc")
                       ELSE [@ EXCEPT !.pc = "rfh_dec"]]
  /\ UNCHANGED <<textVars, convLock, chatVars, workers, mailboxes, convVars, cmLock, cmCancelled, reaper,
                 now, bus, handled>>

\* a loop that gives up at the first target whose Route fails
RfhDecrementReturns(p) ==
  /\ At(p, "rfh_dec")
  /\ convs' = OnConv(p, DecrementPending(convs[procs[p].conv]))
  /\ procs' = [procs EXCEPT ![p] = Return(p, procs[p].errs + 1)]
  /\ UNCHANGED <<textVars, convLock, chatVars, mboxVars, conversations, cmLock, cmCancelled, reaper, now,
                 bus, sent, handled, panicked>>

\* RouteFromHuman: conv.DecrementPending() and errors = append(errors, ...)
\* after a Route that failed, then the next target
RfhDecrement(p) ==
  /\ At(p, "rfh_dec")
  /\ convs' = OnConv(p, DecrementPending(convs[procs[p].conv]))
  /\ procs' = [procs EXCEPT ![p] = Advance(p, procs[p].errs + 1, "rfh_inc")]
  /\ UNCHANGED <<textVars, convLock, chatVars, mboxVars, conversations, cmLock, cmCancelled, reaper, now,
                 bus, sent, handled, panicked>>

\* SendAsAgent posts the chunks of a reply in order and returns the error of
\* the first chunk that fails (failAt = 0: none fails)
\* a SendAsAgent whose chunk errors are dropped
SendAsAgentDropsError(chunks, failAt) == TRUE

SendAsAgent(chunks, failAt) == failAt = 0

\* the identity SendAsAgent posts under: the persona's bot if c.agentBots
\* has one, else the gateway (sendViaGateway)
PostedBy(agent) ==
  IF agent \in AgentBots THEN AccountID[agent] ELSE GatewayUserID

\* the chat server after SendAsAgent: the chunks before the failing one
\* are posted
SendAsAgentPosts(agent, room, failAt) ==
  IF failAt = 1 THEN posted
  ELSE posted \cup {[by |-> PostedBy(agent), room |-> room]}

\* SendAgentResponse for the reply to request req: parse the mentions, post
\* (SendAsAgent), and return the error when the post fails
SendAgentResponse(p, req, mentions, chunks, failAt) ==
  /\ At(p, "idle")
  /\ req \in bus
  /\ MsgBudget(Len(mentions))
  /\ bus' = bus \ {req}
  /\ procs' = [procs EXCEPT ![p] =
                 IF SendAsAgent(chunks, failAt)
                   THEN [IdleProc EXCEPT !.pc = "har_get", !.room = req.room,
                                         !.from = req.agent,
                                         !.targets = mentions, !.i = 1]
                   ELSE Return(p, 1)]
  /\ posted' = SendAsAgentPosts(req.agent, req.room, failAt)
  /\ UNCHANGED <<textVars, convLock, botUserID, running, mainChannelID, mboxVars, convVars, cmLock, cmCancelled, reaper, now, sent,
                 handled, panicked>>

AfterResponseNoMentions(p) == Return(p, 0)

\* the mentions loop of SendAgentResponse: first target or return
AfterResponse(p) ==
  IF Len(procs[p].targets) = 0 THEN Return(p, 0)
  ELSE [procs[p] EXCEPT !.pc = "rta_get", !.i = 1]

\* HandleAgentResponse: conv, exists := GetConversation(channelID)
HarGet(p) ==
  /\ At(p, "har_get")
  /\ cmLock = "free"
  /\ procs' = [procs EXCEPT ![p] =
                 IF conversations[procs[p].room] = 0 THEN AfterResponse(p)
                 ELSE [@ EXCEPT !.pc = "har_dec",
                                !.conv = conversations[procs[p].room],
                                !.base = GetOrCreatePending(procs[p].room),
                                !.hist = GetOrCreateHistory(procs[p].room)]]
  /\ UNCHANGED <<textVars, convLock, chatVars, mboxVars, convVars, cmLock, cmCancelled, reaper, now, bus,
                 sent, handled, panicked>>

HarDecrement(p) ==
  /\ At(p, "har_dec")
  /\ convs' = OnConv(p, DecrementPending(convs[procs[p].conv]))
  /\ procs' = [procs EXCEPT ![p].pc = "har_add"]
  /\ UNCHANGED <<textVars, convLock, chatVars, mboxVars, conversations, cmLock, cmCancelled, reaper, now,
                 bus, sent, handled, panicked>>

HarAddMessage(p) ==
  /\ At(p, "har_add")
  /\ convs' = OnConv(p, AddMessage(convs[procs[p].conv],
                 ConversationMessage(0, procs[p].from, <<>>, FALSE), now))
  /\ procs' = [procs EXCEPT ![p] = AfterResponse(p)]
  /\ UNCHANGED <<textVars, convLock, chatVars, mboxVars, conversations, cmLock, cmCancelled, reaper, now,
                 bus, sent, handled, panicked>>

\* RouteToAgent: conv := GetOrCreateConversation(channelID)
RtaGet(p) ==
  /\ At(p, "rta_get")
  /\ CanGetOrCreate(procs[p].room)
  /\ convs' = GetOrCreateConvs(procs[p].room)
  /\ conversations' = GetOrCreateRegistry(procs[p].room)
  /\ procs' = [procs EXCEPT ![p].pc = "rta_inc",
                            ![p].conv = GetOrCreateHandle(procs[p].room),
                            ![p].base = GetOrCreatePending(procs[p].room),
                            ![p].hist = GetOrCreateHistory(procs[p].room)]
  /\ UNCHANGED <<textVars, convLock, chatVars, mboxVars, cmLock, cmCancelled, reaper, now, bus, sent,
                 handled, panicked>>

RtaIncrement(p) ==
  /\ At(p, "rta_inc")
  /\ convs' = OnConv(p, IncrementPending(convs[procs[p].conv]))
  /\ procs' = [procs EXCEPT ![p].pc = "rta_route"]
  /\ UNCHANGED <<textVars, convLock, chatVars, mboxVars, conversations, cmLock, cmCancelled, reaper, now,
                 bus, sent, handled, panicked>>

RtaRoute(p) ==
  /\ At(p, "rta_route")
  /\ LET msg == ActorMessage(nextId, procs[p].from,
                             procs[p].targets[procs[p].i], procs[p].room)
         res == RouteResult(msg)
     IN /\ boxes' = RouteBoxes(msg)
        /\ sent' = Append(sent, [box |-> MailboxOf(msg.To), res |-> res])
        /\ panicked' = (res = "panic")
        /\ procs' = [procs EXCEPT ![p].id = nextId,
                                  ![p].pc = IF res = "ok" THEN "rta_add"
                                            ELSE "rta_dec"]
  /\ UNCHANGED <<textVars, convLock, chatVars, workers, mailboxes, convVars, cmLock, cmCancelled, reaper,
                 now, bus, handled>>

RtaDecrement(p) ==
  /\ At(p, "rta_dec")
  /\ convs' = OnConv(p, DecrementPending(convs[procs[p].conv]))
  /\ procs' = [procs EXCEPT ![p] = Advance(p, procs[p].errs + 1, "rta_get")]
  /\ UNCHANGED <<textVars, convLock, chatVars, mboxVars, conversations, cmLock, cmCancelled, reaper, now,
                 bus, sent, handled, panicked>>

RtaAddMessage(p) ==
  /\ At(p, "rta_add")
  /\ convs' = OnConv(p, AddMessage(convs[procs[p].conv],
                 ConversationMessage(procs[p].id, procs[p].from,
                                     <<procs[p].targets[procs[p].i]>>, FALSE),
                 now))
  /\ procs' = [procs EXCEPT ![p] = Advance(p, procs[p].errs, "rta_get")]
  /\ UNCHANGED <<textVars, convLock, chatVars, mboxVars, conversations, cmLock, cmCancelled, reaper, now,
                 bus, sent, handled, panicked>>

\* processMessage with handleAgentMessage installed: look up the room's
\* conversation, build the context, publish the request on the bus
ProcessAgentHandler(b, w) ==
  /\ AtProcess(b, w)
  /\ boxes[b].handler = "agent"
  /\ CanGetOrCreate(workers[b][w].msg.ChannelID)
  /\ convs' = GetOrCreateConvs(workers[b][w].msg.ChannelID)
  /\ conversations' = GetOrCreateRegistry(workers[b][w].msg.ChannelID)
  /\ workers' = [workers EXCEPT ![b][w].pc = "build",
                                ![b][w].conv = GetOrCreateHandle(workers[b][w].msg.ChannelID)]
  /\ UNCHANGED <<textVars, convLock, chatVars, boxes, mailboxes, cmLock, cmCancelled, reaper, now, procs,
                 bus, sent, handled, panicked>>

\* Conversation.GetRecentMessages(n): a copy of the last n entries
GetRecentMessages(c, n) ==
  IF n <= 0 \/ Len(c.Messages) = 0 THEN <<>>
  ELSE SubSeq(c.Messages, IF Len(c.Messages) > n THEN Len(c.Messages) - n + 1 ELSE 1,
              Len(c.Messages))

\* handleAgentMessage: conv.BuildContextForAgent(agent, 10), on the
\* conversation the handler obtained
HandlerBuildContext(b, w) ==
  /\ Live
  /\ workers[b][w].pc = "build"
  /\ workers' = [workers EXCEPT ![b][w].pc = "publish",
                                ![b][w].ctx = GetRecentMessages(convs[workers[b][w].conv], 10)]
  /\ UNCHANGED <<textVars, convLock, chatVars, boxes, mailboxes, convVars, cmLock, cmCancelled, reaper,
                 now, procs, bus, sent, handled, panicked>>

\* handleAgentMessage: h.bus.PublishInbound(inbound), return nil
HandlerPublish(b, w) ==
  /\ Live
  /\ workers[b][w].pc = "publish"
  /\ bus' = bus \cup {[agent |-> boxes[b].agent,
                       room |-> workers[b][w].msg.ChannelID,
                       id |-> workers[b][w].msg.ID]}
  /\ handled' = [handled EXCEPT ![b] = Append(@, Invocation(b, w, FALSE))]
  /\ workers' = [workers EXCEPT ![b][w].pc = AfterHandler(FALSE),
                                ![b][w].conv = 0, ![b][w].ctx = <<>>]
  /\ UNCHANGED <<textVars, convLock, chatVars, boxes, mailboxes, convVars, cmLock, cmCancelled, reaper,
                 now, procs, sent, panicked>>

\* The hub in operation: NewMultiAgentDiscordChannel, then Start with the
\* coordinator's bot connected (RegisterAgent, StartAll); setupHandlers has
\* installed handleAgentMessage if it ran after the registration
HubMailbox(h) ==
  [NewActorMailbox(AgentMaster, HubCapacity) EXCEPT !.handler = h]

Init ==
  /\ \E h \in {"agent", "nil"} : boxes = <<HubMailbox(h)>>
  /\ workers = <<StartBox(<<>>)>>
  /\ mailboxes = [a \in Range(AllAgentTypes) |->
                    IF a = AgentMaster THEN 1 ELSE 0]
  /\ convs = <<>>
  /\ conversations = [r \in Rooms |-> 0]
  /\ cmLock = "free"
  /\ convLock = [c \in 1..MaxConvs |-> "free"]
  /\ cmCancelled = FALSE
  /\ reaper = ReaperWaiting
  /\ now = 0
  /\ procs = [p \in Procs |-> IdleProc]
  /\ bus = {}
  /\ sent = <<>>
  /\ handled = <<<<>>>>
  /\ panicked = FALSE
  /\ posted = {}
  /\ running = TRUE
  /\ mainChannelID = MainChannel
  /\ botUserID = [a \in Range(AllAgentTypes) |->
                    IF a = AgentMaster THEN AccountID[a] ELSE ""]
  /\ text = <<>>
  /\ result = NoResult

Next ==
  \/ \E b \in BoxIds, w \in 1..MaxWorkers :
       /\ w <= Len(workers[b])
       /\ \/ WorkerReceive(b, w)
          \/ ProcessNoHandler(b, w)
          \/ ProcessAgentHandler(b, w)
          \/ HandlerBuildContext(b, w)
          \/ HandlerPublish(b, w)
  \/ \E r \in Rooms : CloseConversation(r)
  \/ Tick
  \/ ReaperTick
  \/ \E r \in Rooms : ReaperScan(r)
  \/ \E r \in Rooms : ReaperClose(r)
  \/ \E p \in Procs, t \in TargetLists, r \in Rooms : RouteFromHuman(p, t, r, HumanUser)
  \/ \E p \in Procs : RfhAddMessage(p)
  \/ \E p \in Procs : RfhIncrement(p)
  \/ \E p \in Procs : RfhRoute(p)
  \/ \E p \in Procs : RfhDecrement(p)
  \/ \E p \in Procs, req \in bus, m \in MentionLists, n \in 1..MaxChunks :
       \E failAt \in 0..n : SendAgentResponse(p, req, m, n, failAt)
  \/ \E p \in Procs : HarGet(p)
  \/ \E p \in Procs : HarDecrement(p)
  \/ \E p \in Procs : HarAddMessage(p)
  \/ \E p \in Procs : RtaGet(p)
  \/ \E p \in Procs : RtaIncrement(p)
  \/ \E p \in Procs : RtaRoute(p)
  \/ \E p \in Procs : RtaDecrement(p)
  \/ \E p \in Procs : RtaAddMessage(p)

Spec == Init /\ [][Next]_vars


\* the ticker keeps firing and a scan that holds cm.mu runs to its end
SpecLive ==
  /\ Spec
  /\ WF_vars(ReaperTick)
  /\ WF_vars(\E r \in Rooms : ReaperScan(r))
  /\ WF_vars(\E r \in Rooms : ReaperClose(r))

(***************************************************************************)
(* Properties.                                                             *)
(***************************************************************************)
Registry == {conversations[r] : r \in Rooms} \ {0}

\* C1: in every reachable state every conversation, registered or held only
\* through a handle, has PendingCount >= 0.
C1_PendingNonNegative == \A c \in ConvIds : convs[c].PendingCount >= 0

\* HandleAgentResponse has just decremented a conversation that had nothing
\* pending: a fresh conversation with no message and PendingCount 0
C1_Witness ==
  \E p \in Procs :
    /\ procs[p].pc = "har_add"
    /\ convs[procs[p].conv].Messages = <<>>
    /\ convs[procs[p].conv].PendingCount = 0

\* ids of the ActorMessages a mailbox accepted, of those a handler was
\* invoked on, and of those whose reply went through SendAgentResponse
Accepted == {i \in 1..Len(sent) : sent[i].res = "ok"}
HandledIds ==
  UNION {{handled[b][k].id : k \in 1..Len(handled[b])} : b \in BoxIds}
Replied == HandledIds \ {q.id : q \in bus}

\* C2: once the reply to every accepted ActorMessage has been through the
\* outbound path (SendAgentResponse has returned for each), the pending
\* count of the room's conversation is back to 0, its value before the
\* first utterance.
C2_PendingReturns ==
  (/\ \A p \in Procs : procs[p].pc = "idle"
   /\ Accepted # {}
   /\ Accepted \subseteq Replied)
    => \A c \in Registry : convs[c].PendingCount = 0

\* C3 as stated: State = Processing exactly when PendingCount > 0, for every
\* conversation object, closed ones included.
C3_ProcessingIffPending ==
  \A c \in ConvIds :
    (convs[c].State = ConvStateProcessing) <=> (convs[c].PendingCount > 0)

\* C3 amended: State = Processing implies PendingCount > 0 for every
\* conversation, and PendingCount > 0 implies State = Processing for every
\* conversation whose state is not Closed.
C3_ProcessingIffPendingUnlessClosed ==
  \A c \in ConvIds :
    /\ convs[c].State = ConvStateProcessing => convs[c].PendingCount > 0
    /\ (convs[c].PendingCount > 0 /\ convs[c].State # ConvStateClosed)
         => convs[c].State = ConvStateProcessing

\* a conversation removed from the registry that a handle obtained before
\* the close has since incremented
C3_Witness ==
  \E c \in ConvIds \ Registry :
    /\ convs[c].State = ConvStateProcessing
    /\ convs[c].PendingCount > 0

\* C4: once a conversation's State is Closed, no step changes it.
C4_ClosedIsTerminal ==
  [][\A c \in ConvIds :
       convs[c].State = ConvStateClosed => convs'[c].State = ConvStateClosed]_vars

\* C5: every step by which the reaper closes and removes a room finds that
\* room's conversation with PendingCount = 0 and idle for more than
\* IdleTimeout at that moment.
C5_ReapsOnlyIdle ==
  [][\A r \in Rooms :
       (reaper.pc = "close" /\ conversations[r] # 0 /\ conversations'[r] = 0)
         => /\ convs[conversations[r]].PendingCount = 0
            /\ now - convs[conversations[r]].LastActivity > IdleTimeout]_vars

\* room r is registered to conversation c, which has nothing pending and
\* has been idle since t for more than IdleTimeout
Eligible(r, c, t) ==
  /\ conversations[r] = c
  /\ convs[c].PendingCount = 0
  /\ convs[c].LastActivity = t
  /\ now - t > IdleTimeout

\* C6: a registered room with PendingCount = 0 and idle for more than
\* IdleTimeout is, unless there is further activity on it, closed and
\* removed from the registry by the reaper's next scan.
C6_IdleRoomIsReaped ==
  \A r \in Rooms, c \in 1..MaxConvs, t \in 0..MaxTime :
    (c \in ConvIds /\ Eligible(r, c, t))
      ~> /\ c \in ConvIds
         /\ \/ /\ conversations[r] # c
               /\ convs[c].State = ConvStateClosed
            \/ convs[c].PendingCount # 0
            \/ convs[c].LastActivity # t

\* the reaper has closed and removed a room: back at its timer, the
\* conversation Closed, unregistered, untouched since
C6_Witness ==
  \E c \in ConvIds \ Registry :
    /\ reaper.pc = "wait"
    /\ convs[c].State = ConvStateClosed
    /\ convs[c].PendingCount = 0
    /\ now - convs[c].LastActivity > IdleTimeout


\* the step appends the outcome of a Send on mailbox b to the log (a Send
\* called directly or by Route, not the select of SendWithTimeout)
SendStepOn(b) ==
  /\ Len(sent') = Len(sent) + 1
  /\ sent'[Len(sent')].box = b
  /\ \A p \in DOMAIN procs : procs[p].pc = "swt_wait" => procs'[p].pc = "swt_wait"

\* the step leaves at the tail of b's queue the message just sent
Enqueued(b) ==
  /\ Len(boxes'[b].messages) = Len(boxes[b].messages) + 1
  /\ SubSeq(boxes'[b].messages, 1, Len(boxes[b].messages)) = boxes[b].messages
  /\ boxes'[b].messages[Len(boxes'[b].messages)].ID = Len(sent')
  /\ boxes'[b].messages[Len(boxes'[b].messages)].To = boxes[b].agent

\* what C8 asks of a send on mailbox b
SendContract(b) ==
  IF Len(boxes[b].messages) < boxes[b].capacity
  THEN sent'[Len(sent')].res = "ok" /\ Enqueued(b)
  ELSE sent'[Len(sent')].res = "full" /\ boxes'[b].messages = boxes[b].messages

QueuesWithinCapacity ==
  \A b \in 1..Len(boxes') : Len(boxes'[b].messages) <= boxes'[b].capacity

\* C7: the handler of a mailbox is invoked on the accepted messages in the
\* order of their sends (ids are given in send order).
C7_HandlerSeesSendOrder ==
  \A b \in BoxIds : \A j, k \in 1..Len(handled[b]) :
    j < k => handled[b][j].id < handled[b][k].id

\* C8 as stated: every send, on any mailbox, enqueues at the tail and
\* returns ok when the queue is below capacity, returns full and leaves the
\* queue unchanged otherwise; no queue ever exceeds its capacity.
C8_SendOkOrFull ==
  [][/\ QueuesWithinCapacity
     /\ \A b \in BoxIds : SendStepOn(b) => SendContract(b)]_vars

\* C8 amended: every send on a mailbox that has not been stopped enqueues at
\* the tail and returns ok when the queue is below capacity, returns full and
\* leaves the queue unchanged otherwise; no queue, stopped or not, ever
\* exceeds its capacity.
C8_SendOkOrFullUnlessStopped ==
  [][/\ QueuesWithinCapacity
     /\ \A b \in BoxIds :
          (SendStepOn(b) /\ ~boxes[b].closed) => SendContract(b)]_vars

\* a running mailbox at capacity that has accepted one send and refused
\* another
C8_Witness ==
  \E b \in BoxIds :
    /\ ~boxes[b].closed
    /\ Len(boxes[b].messages) = boxes[b].capacity
    /\ \E i, j \in 1..Len(sent) :
         /\ sent[i] = [box |-> b, res |-> "ok"]
         /\ sent[j] = [box |-> b, res |-> "full"]

\* C9: no handler invocation is for a message the worker took from the
\* queue after Stop had returned.
C9_NoInvocationAfterStop ==
  \A b \in BoxIds : \A k \in 1..Len(handled[b]) : ~handled[b][k].late

\* C10: every send or route on a stopped mailbox returns an error, leaves
\* the queue unchanged and does not panic.
C10_SendAfterStopFails ==
  [][\A b \in BoxIds :
       (SendStepOn(b) /\ boxes[b].closed)
         => /\ sent'[Len(sent')].res = "full"
            /\ boxes'[b].messages = boxes[b].messages
            /\ ~panicked']_vars


\* the processLoop goroutines of mailbox b that have not returned
Running(b) == {w \in 1..Len(workers[b]) : workers[b][w].pc # "exited"}

\* C11: every mailbox has at most one worker that has not returned, after
\* any sequence of Start and StartAll calls.
C11_AtMostOneWorker == \A b \in BoxIds : Cardinality(Running(b)) <= 1

\* C12: a Stop on a mailbox already stopped, and a StopAll when every
\* registered mailbox is already stopped, completes without a panic and
\* leaves mailboxes and workers as they were.
C12_StopIsIdempotent ==
  [][(\/ \E b \in BoxIds : Stop(b) /\ boxes[b].closed
      \/ StopAll /\ \A b \in Registered : boxes[b].closed)
       => (~panicked' /\ boxes' = boxes /\ workers' = workers)]_vars

\* C13: a handler invocation that returns an error leaves its worker at
\* the select of processLoop and the queue as it was; a worker has returned
\* only if its mailbox was stopped.
C13_HandlerErrorKeepsWorker ==
  [][/\ \A b \in BoxIds, w \in 1..MaxWorkers :
          (w <= Len(workers[b]) /\ ProcessUserHandler(b, w, TRUE))
            => /\ workers'[b][w].pc = "select"
               /\ boxes'[b].messages = boxes[b].messages
     /\ \A b \in 1..Len(workers') : \A w \in 1..Len(workers'[b]) :
          workers'[b][w].pc = "exited" => boxes'[b].cancelled]_vars

\* a single worker whose handler failed on one message has handled the
\* next one
C13_Witness ==
  \E b \in BoxIds :
    /\ Len(workers[b]) = 1
    /\ ~boxes[b].closed
    /\ Len(handled[b]) >= 2
    /\ handled[b][1].err
    /\ handled[b][1].id < handled[b][2].id


\* the pc of call p changes from pc to something else in this step
Leaves(p, pc) == procs[p].pc = pc /\ procs'[p].pc # pc

LastOf(q) == q[Len(q)]

\* C14: the AddMessage of RouteFromHuman called with no targets leaves the
\* conversation as the call with targets = [AgentMaster] does: a human
\* entry with To = [AgentMaster] and AgentMaster among the ActiveAgents.
C14_EmptyTargetsLikeCoordinator ==
  [][\A p \in Procs :
       (Leaves(p, "rfh_add") /\ procs[p].targets = <<>>)
         => convs'[procs[p].conv] =
              AddMessage(convs[procs[p].conv],
                         [ConversationMessage(0, Human, <<AgentMaster>>, TRUE)
                            EXCEPT !.SenderID = procs[p].sender],
                         now)]_vars

\* outcome of the Route for target i of the RouteFromHuman call that
\* returns in this step
CallSent(p, i) == sent'[Len(sent') - Len(procs[p].targets) + i]

FailedTargets(p) ==
  {i \in 1..Len(procs[p].targets) : CallSent(p, i).res # "ok"}

(***************************************************************************)
(* Fan-out over small mailboxes: a router whose ActorSystem has           *)
(* registered the coordinator and qa with a buffer of MaxCap      *)
(* messages and started them, dev not registered.  The workers run with   *)
(* no handler installed, so a full mailbox gets room again.               *)
(***************************************************************************)
FanoutLists == {<<AgentQA>>, <<AgentQA, AgentMaster>>, <<AgentDev, AgentQA>>}

InitFanout ==
  /\ boxes = <<NewActorMailbox(AgentMaster, MaxCap),
               NewActorMailbox(AgentQA, MaxCap)>>
  /\ workers = <<StartBox(<<>>), StartBox(<<>>)>>
  /\ handled = <<<<>>, <<>>>>
  /\ mailboxes = [a \in Range(AllAgentTypes) |->
                    IF a = AgentMaster THEN 1 ELSE IF a = AgentQA THEN 2 ELSE 0]
  /\ convs = <<>>
  /\ conversations = [r \in Rooms |-> 0]
  /\ cmLock = "free"
  /\ convLock = [c \in 1..MaxConvs |-> "free"]
  /\ cmCancelled = FALSE
  /\ reaper = ReaperWaiting
  /\ now = 0
  /\ procs = [p \in Procs |-> IdleProc]
  /\ bus = {}
  /\ sent = <<>>
  /\ panicked = FALSE
  /\ posted = {}
  /\ running = FALSE
  /\ mainChannelID = ""
  /\ botUserID = [a \in Range(AllAgentTypes) |-> ""]
  /\ text = <<>>
  /\ result = NoResult

NextFanout ==
  \/ \E b \in BoxIds, w \in 1..MaxWorkers :
       /\ w <= Len(workers[b])
       /\ \/ WorkerReceive(b, w)
          \/ ProcessNoHandler(b, w)
  \/ \E p \in Procs, t \in FanoutLists, r \in Rooms : RouteFromHuman(p, t, r, HumanUser)
  \/ \E p \in Procs : RfhAddMessage(p)
  \/ \E p \in Procs : RfhIncrement(p)
  \/ \E p \in Procs : RfhRoute(p)
  \/ \E p \in Procs : RfhDecrement(p)

SpecFanout == InitFanout /\ [][NextFanout]_vars

\* C15: RouteFromHuman routes to every target in order, whatever happened
\* to the targets before it; a Route fails exactly when the persona has no
\* mailbox or its mailbox is full, and is then followed by one
\* DecrementPending that takes exactly one off and by the next target;
\* when the call returns it has tried every target, has one error per
\* failed target, and PendingCount is its value at the start of the call
\* plus the number of successful routes.
C15_FailedTargetsUndone ==
  [][\A p \in Procs :
       /\ Leaves(p, "rfh_route")
            => LET t == procs[p].targets[procs[p].i]
                   b == MailboxOf(t)
                   room == b # 0 /\ Len(boxes[b].messages) < boxes[b].capacity
               IN /\ LastOf(sent').box = b
                  /\ LastOf(sent').res =
                       (IF b = 0 THEN "unregistered"
                        ELSE IF room THEN "ok" ELSE "full")
                  /\ room => /\ Len(boxes'[b].messages) = Len(boxes[b].messages) + 1
                             /\ LastOf(boxes'[b].messages).To = t
                  /\ ~room => boxes' = boxes
                  /\ LastOf(sent').res # "ok" <=> procs'[p].pc = "rfh_dec"
                  /\ convs'[procs[p].conv].PendingCount =
                       procs[p].base + procs[p].i - procs[p].errs
       /\ Leaves(p, "rfh_dec")
            => /\ convs'[procs[p].conv].PendingCount =
                    convs[procs[p].conv].PendingCount - 1
               /\ IF procs[p].i < Len(procs[p].targets)
                    THEN /\ procs'[p].pc = "rfh_inc"
                         /\ procs'[p].i = procs[p].i + 1
                         /\ procs'[p].errs = procs[p].errs + 1
                    ELSE procs'[p].pc = "idle"
       /\ (procs[p].pc \in {"rfh_route", "rfh_dec"} /\ procs'[p].pc = "idle")
            => /\ procs[p].i = Len(procs[p].targets)
               /\ \A i \in 1..Len(procs[p].targets) :
                    CallSent(p, i).box = MailboxOf(procs[p].targets[i])
               /\ procs[p].errs + (IF procs[p].pc = "rfh_dec" THEN 1 ELSE 0)
                    = Cardinality(FailedTargets(p))
               /\ convs'[procs[p].conv].PendingCount =
                    procs[p].base + Len(procs[p].targets)
                      - Cardinality(FailedTargets(p))]_vars

\* RouteFromHuman for [qa], then RouteFromHuman for [qa, master] before the
\* worker of qa has taken the first message: qa's mailbox was full, the
\* increment for it was undone, and master was routed to all the same
C15_Witness ==
  \E p \in Procs, r \in Rooms :
    /\ procs[p].pc = "idle"
    /\ conversations[r] # 0
    /\ Len(convs[conversations[r]].Messages) = 2
    /\ LastOf(convs[conversations[r]].Messages).To = <<AgentQA, AgentMaster>>
    /\ convs[conversations[r]].PendingCount = 2
    /\ Len(sent) = 3
    /\ sent[1] = [box |-> mailboxes[AgentQA], res |-> "ok"]
    /\ sent[2] = [box |-> mailboxes[AgentQA], res |-> "full"]
    /\ sent[3] = [box |-> mailboxes[AgentMaster], res |-> "ok"]

\* C16: a RouteToAgent whose Route succeeds ends with PendingCount one above
\* its value at the start of the call and one more history entry, with
\* From the sender, To the one target and IsFromHuman false; one whose
\* Route fails ends with PendingCount and history length as at the start.
C16_RouteToAgent ==
  [][\A p \in Procs :
       /\ Leaves(p, "rta_route")
            => (LastOf(sent').res = "ok" <=> procs'[p].pc = "rta_add")
       /\ Leaves(p, "rta_add")
            => /\ convs'[procs[p].conv].PendingCount = procs[p].base + 1
               /\ Len(convs[procs[p].conv].Messages) = procs[p].hist
               /\ Len(convs'[procs[p].conv].Messages) = procs[p].hist + 1
               /\ SubSeq(convs'[procs[p].conv].Messages, 1, procs[p].hist)
                    = convs[procs[p].conv].Messages
               /\ LastOf(convs'[procs[p].conv].Messages).From = procs[p].from
               /\ LastOf(convs'[procs[p].conv].Messages).To
                    = <<procs[p].targets[procs[p].i]>>
               /\ ~LastOf(convs'[procs[p].conv].Messages).IsFromHuman
       /\ Leaves(p, "rta_dec")
            => /\ LastOf(sent).res # "ok"
               /\ convs'[procs[p].conv].PendingCount = procs[p].base
               /\ Len(convs'[procs[p].conv].Messages) = procs[p].hist]_vars

\* the RouteToAgent for the first of two mentions has succeeded and returned
C16_Witness ==
  \E p \in Procs :
    /\ procs[p].pc = "rta_get"
    /\ procs[p].i = 2
    /\ convs[procs[p].conv].PendingCount = procs[p].base + 1
    /\ Len(convs[procs[p].conv].Messages) = procs[p].hist + 1

\* C17: HandleAgentResponse on a room with a registered conversation ends
\* with PendingCount one below its value at the start (0 if it was 0) and
\* one more history entry, with From the persona, To empty and IsFromHuman
\* false.
C17_HandleAgentResponse ==
  [][\A p \in Procs :
       /\ (Leaves(p, "har_get") /\ conversations[procs[p].room] # 0)
            => procs'[p].pc = "har_dec"
       /\ Leaves(p, "har_add")
            => /\ convs'[procs[p].conv].PendingCount =
                    (IF procs[p].base > 0 THEN procs[p].base - 1 ELSE 0)
               /\ Len(convs'[procs[p].conv].Messages) = procs[p].hist + 1
               /\ SubSeq(convs'[procs[p].conv].Messages, 1, procs[p].hist)
                    = convs[procs[p].conv].Messages
               /\ LastOf(convs'[procs[p].conv].Messages).From = procs[p].from
               /\ LastOf(convs'[procs[p].conv].Messages).To = <<>>
               /\ ~LastOf(convs'[procs[p].conv].Messages).IsFromHuman]_vars

\* HandleAgentResponse has returned on a conversation that had a reply
\* pending
C17_Witness ==
  \E p \in Procs :
    /\ procs[p].pc = "rta_get"
    /\ procs[p].i = 1
    /\ procs[p].base > 0
    /\ convs[procs[p].conv].PendingCount = procs[p].base - 1
    /\ Len(convs[procs[p].conv].Messages) = procs[p].hist + 1
    /\ LastOf(convs[procs[p].conv].Messages).To = <<>>

HarPcs == {"har_get", "har_dec", "har_add"}
RtaPcs == {"rta_get", "rta_inc", "rta_route", "rta_dec", "rta_add"}

\* C18: SendAgentResponse enters HandleAgentResponse exactly when every
\* chunk was posted, whatever the number of chunks, and returns at once
\* otherwise; HandleAgentResponse is entered only at that point, so once
\* and before any RouteToAgent; the RouteToAgent calls go through the
\* mentions one by one, each mention routed once, and the call returns only
\* after the last.
C18_OneResponseThenMentions ==
  [][\A p \in Procs :
       /\ \A req \in bus, m \in MentionLists, n \in 1..MaxChunks :
            \A failAt \in 0..n :
              SendAgentResponse(p, req, m, n, failAt)
                => procs'[p].pc = (IF failAt = 0 THEN "har_get" ELSE "idle")
       /\ (procs'[p].pc = "har_get" /\ procs[p].pc # "har_get")
            => procs[p].pc = "idle"
       /\ (procs'[p].pc = "rta_get" /\ procs[p].pc # "rta_get")
            => IF procs[p].pc \in HarPcs THEN procs'[p].i = 1
               ELSE /\ procs[p].pc \in {"rta_dec", "rta_add"}
                    /\ procs'[p].i = procs[p].i + 1
       /\ Leaves(p, "rta_route")
            => LastOf(sent').box = MailboxOf(procs[p].targets[procs[p].i])
       /\ (procs[p].pc \in HarPcs \cup RtaPcs /\ procs'[p].pc = "idle")
            => \/ procs[p].pc \in HarPcs /\ procs[p].targets = <<>>
               \/ /\ procs[p].pc \in {"rta_dec", "rta_add"}
                  /\ procs[p].i = Len(procs[p].targets)]_vars

\* the reply was recorded by HandleAgentResponse and the second of its two
\* mentions is being routed
C18_Witness ==
  \E p \in Procs :
    /\ procs[p].pc = "rta_route"
    /\ procs[p].i = 2
    /\ \E k \in 1..Len(convs[procs[p].conv].Messages) :
         /\ convs[procs[p].conv].Messages[k].From = procs[p].from
         /\ convs[procs[p].conv].Messages[k].To = <<>>

\* C19: every step that changes a conversation's PendingCount or appends
\* to its history sets its LastActivity to the current time.
C19_ActivityOnEveryChange ==
  [][\A c \in ConvIds :
       (\/ convs'[c].PendingCount # convs[c].PendingCount
        \/ Len(convs'[c].Messages) # Len(convs[c].Messages))
         => convs'[c].LastActivity = now]_vars

\* C20: in every step the history of every conversation keeps its entries,
\* in place and unchanged, and at most grows at the end; its timestamps
\* are non-decreasing in history order.
C20_HistoryAppendOnly ==
  [][\A c \in ConvIds :
       /\ Len(convs'[c].Messages) >= Len(convs[c].Messages)
       /\ SubSeq(convs'[c].Messages, 1, Len(convs[c].Messages))
            = convs[c].Messages
       /\ \A j, k \in 1..Len(convs'[c].Messages) :
            j < k => convs'[c].Messages[j].Timestamp
                       <= convs'[c].Messages[k].Timestamp]_vars

\* a history of three entries written at different times
C20_Witness ==
  \E c \in ConvIds :
    /\ Len(convs[c].Messages) >= 3
    /\ convs[c].Messages[1].Timestamp < convs[c].Messages[2].Timestamp
    /\ convs[c].Messages[2].Timestamp < convs[c].Messages[3].Timestamp

\* C21: a close or a reap of a room leaves its conversation Closed and the
\* room absent from the registry, and the step that registers an absent
\* room registers a new object: Idle, PendingCount 0, no history.
C21_CloseThenFresh ==
  [][\A r \in Rooms :
       /\ (CloseConversation(r) \/ ReaperClose(r)) =>
            /\ convs'[conversations[r]].State = ConvStateClosed
            /\ conversations'[r] = 0
       /\ (conversations[r] = 0 /\ conversations'[r] # 0) =>
            /\ conversations'[r] \notin ConvIds
            /\ convs'[conversations'[r]].ChannelID = r
            /\ convs'[conversations'[r]].State = ConvStateIdle
            /\ convs'[conversations'[r]].PendingCount = 0
            /\ convs'[conversations'[r]].Messages = <<>>]_vars

\* a room closed with history and registered again with a new object
C21_Witness ==
  \E r \in Rooms :
    /\ conversations[r] = 2
    /\ convs[1].ChannelID = r
    /\ convs[1].State = ConvStateClosed
    /\ convs[1].Messages # <<>>
    /\ convs[2].Messages = <<>>
    /\ convs[2].State = ConvStateIdle

(***************************************************************************)
(* The ConversationManager with its shutdown: rooms are registered by     *)
(* human utterances, closed by hand or by the reaper, and Stop cancels    *)
(* the context the reaper selects on.                                     *)
(***************************************************************************)
NextCm ==
  \/ \E p \in Procs, t \in TargetLists, r \in Rooms : RouteFromHuman(p, t, r, HumanUser)
  \/ \E p \in Procs : RfhAddMessage(p)
  \/ \E p \in Procs : RfhIncrement(p)
  \/ \E p \in Procs : RfhRoute(p)
  \/ \E p \in Procs : RfhDecrement(p)
  \/ \E r \in Rooms : CloseConversation(r)
  \/ Tick
  \/ ReaperTick
  \/ \E r \in Rooms : ReaperScan(r)
  \/ \E r \in Rooms : ReaperClose(r)
  \/ CmStop
  \/ ReaperExit

SpecCm == Init /\ [][NextCm]_vars

\* C22: once ConversationManager.Stop has returned, no room is registered,
\* every conversation is Closed, and the reaper starts no scan.
C22_StopClosesRooms ==
  [][cmCancelled' =>
       /\ \A r \in Rooms : conversations'[r] = 0
       /\ \A c \in ConvIds : convs'[c].State = ConvStateClosed
       /\ (cmCancelled /\ reaper.pc = "wait") => reaper'.pc # "scan"]_vars

(***************************************************************************)
(* Registration of one persona over time: RegisterAgent before and after  *)
(* StartAll, with messages routed to the persona and the workers of every *)
(* mailbox it ever had.                                                   *)
(***************************************************************************)
\* two goroutines that call into the actor system
RegProcs == {"g1", "g2"}

InitReg ==
  /\ boxes = <<>>
  /\ workers = <<>>
  /\ mailboxes = [a \in Range(AllAgentTypes) |-> 0]
  /\ convs = <<>>
  /\ conversations = [r \in Rooms |-> 0]
  /\ cmLock = "free"
  /\ convLock = [c \in 1..MaxConvs |-> "free"]
  /\ cmCancelled = FALSE
  /\ reaper = [pc |-> "wait", todo |-> {}, toDelete |-> {}, now |-> 0]
  /\ now = 0
  /\ procs = [p \in RegProcs |-> IdleProc]
  /\ bus = {}
  /\ sent = <<>>
  /\ handled = <<>>
  /\ panicked = FALSE
  /\ posted = {}
  /\ running = FALSE
  /\ mainChannelID = ""
  /\ botUserID = [a \in Range(AllAgentTypes) |-> ""]
  /\ text = <<>>
  /\ result = NoResult

NextReg ==
  \/ \E c \in Capacities : RegisterAgent(AgentMaster, c)
  \/ \E b \in BoxIds : SetHandler(b, "user")
  \/ StartAll
  \/ \E p \in RegProcs, r \in Rooms : Route(p, AgentMaster, r)
  \/ \E p \in RegProcs : RouteSend(p)
  \/ \E p \in RegProcs, b \in BoxIds, r \in Rooms : SendWithTimeout(p, b, r)
  \/ \E p \in RegProcs : SwtEnqueue(p)
  \/ \E p \in RegProcs : SwtTimeout(p)
  \/ \E b \in BoxIds, w \in 1..MaxWorkers :
       /\ w <= Len(workers[b])
       /\ \/ WorkerReceive(b, w)
          \/ ProcessNoHandler(b, w)
          \/ \E err \in BOOLEAN : ProcessUserHandler(b, w, err)

SpecReg == InitReg /\ [][NextReg]_vars

\* C23: a registration of a persona whose mailbox has been started leaves
\* the persona's registered mailbox the started one.
C23_RegisterKeepsStarted ==
  [][\A a \in Range(AllAgentTypes), c \in Capacities :
       (/\ RegisterAgent(a, c)
        /\ mailboxes[a] # 0
        /\ workers[mailboxes[a]] # <<>>)
         => mailboxes'[a] = mailboxes[a]]_vars

(***************************************************************************)
(* The mention parsers as functions of the text: what handleGatewayMessage *)
(* and SendAgentResponse compute from a text before they route.           *)
(***************************************************************************)
\* pieces of the texts: single characters, whole mentions, and mentions
\* written with the long s
Tokens ==
  {<<"@">>, <<"q">>, <<"a">>, <<"Q">>, <<" ">>, <<"\f">>,
   <<EAcuteUpper>>, <<KelvinSign>>,
   Pattern(AgentQA), Pattern(AgentDev),
   <<"@", "m", "a", LongS, "t", "e", "r">>, <<"@", "o", "p", LongS>>}

RECURSIVE TextsOf(_)
TextsOf(n) ==
  IF n = 0 THEN {<<>>}
  ELSE TextsOf(n - 1) \cup {s \o t : s \in TextsOf(n - 1), t \in Tokens}

Texts == TextsOf(MaxTokens)

InitText ==
  /\ NoActors
  /\ text \in Texts
  /\ result = NoResult

\* handleGatewayMessage: targetAgents := parseMentions(m.Content);
\* content := cleanMentions(m.Content)
ParseInbound ==
  /\ result = NoResult
  /\ result' = [op |-> "inbound", mentions |-> parseMentions(text),
                content |-> cleanMentions(text)]
  /\ UNCHANGED <<mboxVars, convVars, chatVars, convLock, cmLock, cmCancelled, reaper,
                 now, procs, bus, sent, handled, panicked, text>>

\* the text computations of SendAgentResponse applied to a reply:
\* mentions := parseMentionsFromResponse(content) and, if len(mentions) > 0,
\* cleanContent := cleanMentionsFromResponse(content); a reply without a
\* mention keeps its content. Its posting and routing are the actions
\* SendAgentResponse, HarGet .. RtaAddMessage.
ParseResponse ==
  /\ result = NoResult
  /\ result' = [op |-> "reply", mentions |-> parseMentionsFromResponse(text),
                content |-> IF Len(parseMentionsFromResponse(text)) > 0
                              THEN cleanMentionsFromResponse(text)
                              ELSE text]
  /\ UNCHANGED <<mboxVars, convVars, chatVars, convLock, cmLock, cmCancelled, reaper,
                 now, procs, bus, sent, handled, panicked, text>>

NextText == ParseInbound \/ ParseResponse

SpecText == InitText /\ [][NextText]_vars

\* C26: the inbound parser finds no mention in the text the inbound
\* cleaner returns, whatever the text.
C26_InboundCleanLeavesNoMention ==
  result.op = "inbound" => parseMentions(result.content) = <<>>

\* C27: the reply parser finds no mention in the text the reply cleaner
\* returns, whatever the reply.
C27_ReplyCleanLeavesNoMention ==
  result.op = "reply" => parseMentionsFromResponse(result.content) = <<>>

\* s is t with some characters deleted
RECURSIVE IsSubsequence(_, _)
IsSubsequence(s, t) ==
  IF s = <<>> THEN TRUE
  ELSE IF t = <<>> THEN FALSE
  ELSE IF Head(s) = Head(t) THEN IsSubsequence(Tail(s), Tail(t))
  ELSE IsSubsequence(s, Tail(t))

\* C28: the content routed to the personas a reply mentions is the reply
\* with the mention tokens taken out and every other character as it was.
C28_RoutedContentKeepsText ==
  (result.op = "reply" /\ result.mentions # <<>>)
    => IsSubsequence(result.content, text)

(***************************************************************************)
(* The gateway: chat events of the watched room come in through           *)
(* handleGatewayMessage, the agent loop answers what the gateway          *)
(* published through the channel's Send.                                  *)
(***************************************************************************)
\* "qa", "@qa @dev @qa", "@QA", and "@master" written with the long s
Utterances ==
  {<<"q", "a">>,
   Pattern(AgentQA) \o <<" ">> \o Pattern(AgentDev) \o <<" ">> \o Pattern(AgentQA),
   Pattern(AgentQA) \o <<" ", "@", "Q", "A">>,
   <<"@", "m", "a", LongS, "t", "e", "r">>}

Authors == {HumanUser, GatewayUserID} \cup {AccountID[a] : a \in AgentBots}

\* the bots of S in the order of AllAgentTypes: what a loop over the map
\* c.agentBots has visited, whatever the order it visited them in
Visited(S) == SelectSeq(AllAgentTypes, LAMBDA a : a \in S)

\* the goroutine of the handler of chat events, the one that calls Start
\* and Stop, and the one on which the agent loop calls Send
GwProcs == {"g1", "start", "out"}

\* NewMultiAgentDiscordChannel has returned and Start has opened the
\* gateway session with handleGatewayMessage added: chat events come in
\* while Start goes on
InitGateway ==
  /\ boxes = <<>>
  /\ workers = <<>>
  /\ handled = <<>>
  /\ mailboxes = [a \in Range(AllAgentTypes) |-> 0]
  /\ botUserID = [a \in Range(AllAgentTypes) |-> ""]
  /\ running = FALSE
  /\ mainChannelID = ""
  /\ convs = <<>>
  /\ conversations = [r \in Rooms |-> 0]
  /\ cmLock = "free"
  /\ convLock = [c \in 1..MaxConvs |-> "free"]
  /\ cmCancelled = FALSE
  /\ reaper = ReaperWaiting
  /\ now = 0
  /\ procs = [p \in GwProcs |->
                IF p = "start" THEN [IdleProc EXCEPT !.pc = "st_find"]
                ELSE IdleProc]
  /\ bus = {}
  /\ sent = <<>>
  /\ panicked = FALSE
  /\ posted = {}
  /\ text = <<>>
  /\ result = NoResult

\* Start: findMainChannel is called; its error is only logged, and when it
\* finds the channel it goes on to assign c.mainChannelID
ChannelStartFindMain(found) ==
  /\ At("start", "st_find")
  /\ procs' = [procs EXCEPT !["start"].pc = IF found THEN "st_write" ELSE "st_bots"]
  /\ UNCHANGED <<textVars, convLock, chatVars, mboxVars, convVars,
                 cmLock, cmCancelled, reaper, now, bus, sent, handled, panicked>>

\* findMainChannel: c.mainChannelID = ch.ID, a store of two words (pointer
\* and length) under no lock, complete when this step is taken
ChannelStartWriteMain ==
  /\ At("start", "st_write")
  /\ mainChannelID' = MainChannel
  /\ procs' = [procs EXCEPT !["start"].pc = "st_bots"]
  /\ UNCHANGED <<textVars, convLock, posted, botUserID, running, mboxVars, convVars,
                 cmLock, cmCancelled, reaper, now, bus, sent, handled, panicked>>

\* Start: one round of the loop over c.agentBots, in the order the runtime
\* picks, up to bot.mu.Unlock(); a bot whose session does not open or whose
\* user is not returned is skipped, any other gets its botUserID
ChannelStartBot(agent, ok) ==
  /\ At("start", "st_bots")
  /\ agent \in AgentBots \ Range(procs["start"].targets)
  /\ procs' = [procs EXCEPT !["start"] =
                 [@ EXCEPT !.targets = Visited(Range(@) \cup {agent}),
                           !.from = IF ok THEN agent ELSE Human,
                           !.pc = IF ok THEN "st_reg" ELSE "st_bots"]]
  /\ botUserID' = IF ok THEN [botUserID EXCEPT ![agent] = AccountID[agent]]
                  ELSE botUserID
  /\ UNCHANGED <<textVars, convLock, posted, running, mainChannelID, mboxVars,
                 convVars, cmLock, cmCancelled, reaper, now, bus, sent, handled,
                 panicked>>

\* Start: the round's c.actorSystem.RegisterAgent(agentType, 100), which
\* takes s.mu after bot.mu has been released
ChannelStartRegister ==
  /\ At("start", "st_reg")
  /\ boxes' = Append(boxes, NewActorMailbox(procs["start"].from, HubCapacity))
  /\ workers' = Append(workers, <<>>)
  /\ handled' = Append(handled, <<>>)
  /\ mailboxes' = [mailboxes EXCEPT ![procs["start"].from] = Len(boxes) + 1]
  /\ procs' = [procs EXCEPT !["start"] = [@ EXCEPT !.from = Human, !.pc = "st_bots"]]
  /\ UNCHANGED <<textVars, convLock, chatVars, convVars, cmLock, cmCancelled,
                 reaper, now, bus, sent, panicked>>

\* Start: c.actorSystem.StartAll() after the loop
ChannelStartAll ==
  /\ At("start", "st_bots")
  /\ Range(procs["start"].targets) = AgentBots
  /\ workers' = [b \in BoxIds |->
                   IF b \in Registered THEN StartBox(workers[b]) ELSE workers[b]]
  /\ procs' = [procs EXCEPT !["start"] = [IdleProc EXCEPT !.pc = "st_run"]]
  /\ UNCHANGED <<textVars, convLock, chatVars, boxes, mailboxes, convVars, cmLock,
                 cmCancelled, reaper, now, bus, sent, handled, panicked>>

\* Start: c.running = true, return nil
ChannelStartRunning ==
  /\ At("start", "st_run")
  /\ running' = TRUE
  /\ procs' = [procs EXCEPT !["start"].pc = "st_done"]
  /\ UNCHANGED <<textVars, convLock, posted, botUserID, mainChannelID, mboxVars,
                 convVars, cmLock, cmCancelled, reaper, now, bus, sent, handled,
                 panicked>>

\* MultiAgentDiscordChannel.Stop, called by the caller of Start after Start
\* has returned: c.running = false under c.mu
ChannelStopRunning ==
  /\ At("start", "st_done")
  /\ running' = FALSE
  /\ procs' = [procs EXCEPT !["start"].pc = "sp_all"]
  /\ UNCHANGED <<textVars, convLock, posted, botUserID, mainChannelID, mboxVars,
                 convVars, cmLock, cmCancelled, reaper, now, bus, sent, handled,
                 panicked>>

\* Stop: c.actorSystem.StopAll()
ChannelStopAll ==
  /\ At("start", "sp_all")
  /\ \E S \in StopAllStops :
       boxes' = [b \in BoxIds |-> IF b \in S THEN StopBox(boxes[b]) ELSE boxes[b]]
  /\ panicked' = (\E b \in Registered : boxes[b].closed)
  /\ procs' = [procs EXCEPT !["start"].pc = "sp_cm"]
  /\ UNCHANGED <<textVars, convLock, chatVars, workers, mailboxes, convVars, cmLock,
                 cmCancelled, reaper, now, bus, sent, handled>>

\* Stop: c.convManager.Stop()
ChannelStopCm ==
  /\ At("start", "sp_cm")
  /\ cmCancelled' = TRUE
  /\ procs' = [procs EXCEPT !["start"].pc = "sp_close"]
  /\ UNCHANGED <<textVars, convLock, chatVars, mboxVars, convVars, cmLock, reaper,
                 now, bus, sent, handled, panicked>>

\* Stop: the sessions of the bots and of the gateway are closed; the
\* gateway delivers no event from then on
ChannelStopSessions ==
  /\ At("start", "sp_close")
  /\ procs' = [procs EXCEPT !["start"].pc = "sp_done"]
  /\ UNCHANGED <<textVars, convLock, chatVars, mboxVars, convVars, cmLock,
                 cmCancelled, reaper, now, bus, sent, handled, panicked>>

GatewayOpen == procs["start"].pc # "sp_done"

isOurBot(userID) ==
  \/ userID = GatewayUserID
  \/ \E a \in AgentBots : botUserID[a] = userID

\* the chat server delivers what a human writes and what a bot has posted
Delivers(author, room) ==
  author = HumanUser \/ [by |-> author, room |-> room] \in posted

\* a read of c.mainChannelID that overlaps the store of findMainChannel and
\* gets the new length with the old, nil, pointer; the other mix, the new
\* pointer with the old length 0, is the empty string
Torn == "torn"

\* what a read of c.mainChannelID under no lock can give: the value stored,
\* or, while findMainChannel is storing, the old value, the new one or a mix
MainChannelReads ==
  IF procs["start"].pc = "st_write" THEN {"", MainChannel, Torn}
  ELSE {mainChannelID}

\* `c.mainChannelID != "" && m.ChannelID != c.mainChannelID` with one read
\* for each operand: the event passes ("route"), is dropped, or the
\* comparison with a torn value of the same length as m.ChannelID reads
\* through the nil pointer and the handler's goroutine panics
FilterOutcome(room, first, second) ==
  IF first = "" THEN "route"
  ELSE IF second = Torn
         THEN IF Len(room) = Len(MainChannel) THEN "panic" ELSE "drop"
  ELSE IF room # second THEN "drop"
  ELSE "route"

\* handleGatewayMessage is called with a chat event while the gateway
\* session is open: `if c.isOurBot(m.Author.ID) { return }`.  Of the reads
\* isOurBot makes, one per bot and each under that bot's mu, only the read
\* of the bot whose account the author is can give the author's id, so
\* the answer is that of one read; the event stays deliverable, so the
\* read is made at any time after the post.
HandleGatewayMessage(p, author, content, room) ==
  /\ At(p, "idle")
  /\ GatewayOpen
  /\ Delivers(author, room)
  /\ procs' = [procs EXCEPT ![p] =
                 IF isOurBot(author) THEN IdleProc
                 ELSE [IdleProc EXCEPT !.pc = "gw_filter", !.room = room,
                                      !.sender = author, !.content = content,
                                      !.gw = TRUE]]
  /\ UNCHANGED <<textVars, convLock, chatVars, mboxVars, convVars, cmLock,
                 cmCancelled, reaper, now, bus, sent, handled, panicked>>

\* handleGatewayMessage: the main channel filter, two reads of
\* c.mainChannelID under no lock
GwFilter(p) ==
  /\ At(p, "gw_filter")
  /\ \E first, second \in MainChannelReads :
       LET outcome == FilterOutcome(procs[p].room, first, second)
       IN /\ panicked' = (outcome = "panic")
          /\ procs' = [procs EXCEPT ![p] =
                         IF outcome = "drop" THEN IdleProc
                         ELSE IF outcome = "route" THEN [@ EXCEPT !.pc = "gw_typing"]
                         ELSE @]
  /\ UNCHANGED <<textVars, convLock, chatVars, mboxVars, convVars, cmLock,
                 cmCancelled, reaper, now, bus, sent, handled>>

\* handleGatewayMessage: s.ChannelTyping(m.ChannelID), a request to the chat
\* server the handler waits for; its error is only logged
GwTyping(p) ==
  /\ At(p, "gw_typing")
  /\ procs' = [procs EXCEPT ![p].pc = "gw_route"]
  /\ UNCHANGED <<textVars, convLock, chatVars, mboxVars, convVars, cmLock,
                 cmCancelled, reaper, now, bus, sent, handled, panicked>>

\* handleGatewayMessage: targetAgents := c.parseMentions(m.Content), then
\* c.router.RouteFromHuman(targetAgents, content, m.ChannelID, senderID)
\* up to the conversation it gets or creates
GwRoute(p) ==
  RouteFromHumanBy(p, parseMentions(procs[p].content), procs[p].room,
                   procs[p].sender, TRUE)

\* the bus keeps every request published: a second request of a room gets
\* the next free number
FreeRequestId == CHOOSE k \in 1..(Cardinality(bus) + 1) :
                   \A req \in bus : req.id # -k

\* handleGatewayMessage after RouteFromHuman: the errors are logged, the
\* utterance is published on the bus
GwPublish(p) ==
  /\ At(p, "gw_publish")
  /\ bus' = bus \cup {[agent |-> Human, room |-> procs[p].room,
                       id |-> -FreeRequestId]}
  /\ procs' = [procs EXCEPT ![p] = IdleProc]
  /\ UNCHANGED <<textVars, convLock, chatVars, mboxVars, convVars, cmLock, cmCancelled,
                 reaper, now, sent, handled, panicked>>

\* MultiAgentDiscordChannel.Send, the agent loop's answer to req with
\* ChatID chatID: `if !c.IsRunning()`, the read of c.running under c.mu,
\* with the error return when the channel is not running
ChannelSend(req, chatID) ==
  /\ At("out", "idle")
  /\ req \in bus
  /\ req.agent = Human
  /\ bus' = bus \ {req}
  /\ procs' = [procs EXCEPT !["out"] =
                 IF running THEN [IdleProc EXCEPT !.pc = "cs_post", !.room = chatID]
                 ELSE IdleProc]
  /\ UNCHANGED <<textVars, convLock, chatVars, mboxVars, convVars, cmLock,
                 cmCancelled, reaper, now, sent, handled, panicked>>

\* Send after c.mu is released: the ChatID or else c.mainChannelID, an
\* error when that is empty, otherwise SendAsAgent(AgentMaster)
ChannelSendPost(chunks, failAt) ==
  /\ At("out", "cs_post")
  /\ LET channelID == IF procs["out"].room = "" THEN mainChannelID
                      ELSE procs["out"].room
     IN posted' = IF channelID = "" THEN posted
                  ELSE SendAsAgentPosts(AgentMaster, channelID, failAt)
  /\ procs' = [procs EXCEPT !["out"] = IdleProc]
  /\ UNCHANGED <<textVars, convLock, botUserID, running, mainChannelID, mboxVars,
                 convVars, cmLock, cmCancelled, reaper, now, bus, sent, handled,
                 panicked>>

\* MultiAgentHandler.BroadcastSystemMessage: SendAsAgent(AgentMaster)
BroadcastSystemMessage(p, room, chunks, failAt) ==
  /\ At(p, "idle")
  /\ posted' = SendAsAgentPosts(AgentMaster, room, failAt)
  /\ posted' # posted
  /\ UNCHANGED <<textVars, convLock, botUserID, running, mainChannelID, mboxVars, convVars, cmLock, cmCancelled,
                 reaper, now, procs, bus, sent, handled, panicked>>

\* BroadcastToAllAgents: the call enters its loop over c.agentBots
BroadcastToAllAgents(p, room) ==
  /\ At(p, "idle")
  /\ procs' = [procs EXCEPT ![p] =
                 [IdleProc EXCEPT !.pc = "bc_loop", !.room = room]]
  /\ UNCHANGED <<textVars, convLock, chatVars, mboxVars, convVars, cmLock, cmCancelled,
                 reaper, now, bus, sent, handled, panicked>>

\* BroadcastToAllAgents: one round of the loop, SendAsAgent as the next bot
\* the runtime picks; an error is logged and the loop goes on
BroadcastNext(p, agent, chunks, failAt) ==
  /\ At(p, "bc_loop")
  /\ agent \in AgentBots \ Range(procs[p].targets)
  /\ posted' = SendAsAgentPosts(agent, procs[p].room, failAt)
  /\ procs' = [procs EXCEPT ![p] =
                 IF Range(procs[p].targets) \cup {agent} = AgentBots THEN IdleProc
                 ELSE [@ EXCEPT !.targets = Visited(Range(@) \cup {agent})]]
  /\ UNCHANGED <<textVars, convLock, botUserID, running, mainChannelID, mboxVars, convVars, cmLock, cmCancelled,
                 reaper, now, bus, sent, handled, panicked>>

\* the utterance u asks for no more ActorMessages than a run of n has left
UtteranceTargets == [u \in Utterances |-> EffectiveTargets(parseMentions(u))]
UtteranceBudget(u, n) == Len(sent) + Len(UtteranceTargets[u]) <= n

\* Start, side by side with the chat events that come in meanwhile
ChannelStart ==
  \/ \E found \in BOOLEAN : ChannelStartFindMain(found)
  \/ ChannelStartWriteMain
  \/ \E a \in AgentBots, ok \in BOOLEAN : ChannelStartBot(a, ok)
  \/ ChannelStartRegister
  \/ ChannelStartAll
  \/ ChannelStartRunning

\* Stop, once Start has returned
ChannelStop ==
  \/ ChannelStopRunning
  \/ ChannelStopAll
  \/ ChannelStopCm
  \/ ChannelStopSessions

NextGateway ==
  \/ ChannelStart
  \/ \E a \in Range(AllAgentTypes) : SetAgentHandler(a)
  \/ \E p \in Procs, a \in Authors, u \in Utterances, r \in Rooms :
       UtteranceBudget(u, GwMaxMsgs) /\ HandleGatewayMessage(p, a, u, r)
  \/ \E p \in Procs : GwFilter(p)
  \/ \E p \in Procs : GwTyping(p)
  \/ \E p \in Procs : GwRoute(p)
  \/ \E p \in Procs : RfhAddMessage(p)
  \/ \E p \in Procs : RfhIncrement(p)
  \/ \E p \in Procs : RfhRoute(p)
  \/ \E p \in Procs : RfhDecrement(p)
  \/ \E p \in Procs : GwPublish(p)
  \/ \E req \in bus, c \in Rooms \cup {""} : ChannelSend(req, c)
  \/ \E n \in 1..MaxChunks : \E failAt \in 0..n : ChannelSendPost(n, failAt)

SpecGateway == InitGateway /\ [][NextGateway]_vars

\* the gateway of a hub whose application also broadcasts
NextBroadcast ==
  \/ ChannelStart
  \/ \E p \in Procs, a \in Authors, u \in Utterances, r \in Rooms :
       UtteranceBudget(u, BcMaxMsgs) /\ HandleGatewayMessage(p, a, u, r)
  \/ \E p \in Procs : GwFilter(p)
  \/ \E p \in Procs : GwTyping(p)
  \/ \E p \in Procs : GwRoute(p)
  \/ \E p \in Procs : RfhAddMessage(p)
  \/ \E p \in Procs : RfhIncrement(p)
  \/ \E p \in Procs : RfhRoute(p)
  \/ \E p \in Procs : RfhDecrement(p)
  \/ \E p \in Procs : GwPublish(p)
  \/ \E req \in bus, c \in Rooms \cup {""} : ChannelSend(req, c)
  \/ \E n \in 1..MaxChunks : \E failAt \in 0..n : ChannelSendPost(n, failAt)
  \/ \E p \in Procs, r \in Rooms, n \in 1..MaxChunks :
       \E failAt \in 0..n : BroadcastSystemMessage(p, r, n, failAt)
  \/ \E p \in Procs, r \in Rooms : BroadcastToAllAgents(p, r)
  \/ \E p \in Procs, a \in AgentBots, n \in 1..MaxChunks :
       \E failAt \in 0..n : BroadcastNext(p, a, n, failAt)

SpecBroadcast == InitGateway /\ [][NextBroadcast]_vars

\* the gateway of a hub that is started and then stopped
NextLifecycle ==
  \/ ChannelStart
  \/ ChannelStop
  \/ \E p \in Procs, a \in Authors, u \in Utterances, r \in Rooms :
       UtteranceBudget(u, LcMaxMsgs) /\ HandleGatewayMessage(p, a, u, r)
  \/ \E p \in Procs : GwFilter(p)
  \/ \E p \in Procs : GwTyping(p)
  \/ \E p \in Procs : GwRoute(p)
  \/ \E p \in Procs : RfhAddMessage(p)
  \/ \E p \in Procs : RfhIncrement(p)
  \/ \E p \in Procs : RfhRoute(p)
  \/ \E p \in Procs : RfhDecrement(p)
  \/ \E p \in Procs : GwPublish(p)
  \/ \E req \in bus, c \in Rooms \cup {""} : ChannelSend(req, c)
  \/ \E n \in 1..MaxChunks : \E failAt \in 0..n : ChannelSendPost(n, failAt)

SpecLifecycle == InitGateway /\ [][NextLifecycle]_vars

\* position of the first match of persona a among the matches m
FirstAt(m, a) == CHOOSE k \in 1..Len(m) : m[k] = a /\ \A l \in 1..k - 1 : m[l] # a

\* t lists the distinct personas of the matches m in first-occurrence order
DistinctInOrder(t, m) ==
  /\ Range(t) = Range(m)
  /\ \A i, j \in 1..Len(t) : i < j => FirstAt(m, t[i]) < FirstAt(m, t[j])

\* the ActorMessages in the queue of mailbox b that carry one of ids
QueuedOf(bs, b, ids) ==
  {k \in 1..Len(bs[b].messages) : bs[b].messages[k].ID \in ids}

\* the ids of the ActorMessages made by the RouteFromHuman call of p that
\* returns in this step
CallIds(p) == (Len(sent') - Len(procs[p].targets) + 1)..Len(sent')

MentionsRepeat ==
  [u \in Utterances |->
     \E i, j \in 1..Len(parseMentionsAll(u)) :
       i # j /\ parseMentionsAll(u)[i] = parseMentionsAll(u)[j]]

C25_NoBotEntryAsHuman ==
  \A c \in ConvIds : \A k \in 1..Len(convs[c].Messages) :
    convs[c].Messages[k].IsFromHuman
      => convs[c].Messages[k].SenderID
           \notin {GatewayUserID} \cup {AccountID[a] : a \in AgentBots}

\* C29: when the RouteFromHuman call of an utterance has failed for every
\* target, the gateway has posted in the room as the coordinator by the
\* time its handler ends.
C29_ErrorPostedWhenUnroutable ==
  [][\A p \in Procs :
       (GwPublish(p) /\ procs[p].errs = Len(procs[p].targets))
         => [by |-> PostedBy(AgentMaster), room |-> procs[p].room]
              \in posted']_vars

\* C30: a DecrementPending on a conversation whose PendingCount is 0 leaves
\* the conversation as it was: PendingCount, State, history, ActiveAgents.
C30_DecrementAtZeroIsNoop ==
  [][\A p \in Procs :
       ((HarDecrement(p) \/ RfhDecrement(p) \/ RtaDecrement(p))
          /\ convs[procs[p].conv].PendingCount = 0)
         => convs'[procs[p].conv] = convs[procs[p].conv]]_vars

\* C31: no step takes a conversation that is not Idle back to Idle; a step
\* that brings PendingCount from above 0 to 0 leaves State = Active; and an
\* Idle conversation has PendingCount 0.
C31_IdleOnlyBeforeUse ==
  [][\A c \in ConvIds :
       /\ convs[c].State # ConvStateIdle => convs'[c].State # ConvStateIdle
       /\ (convs[c].PendingCount > 0 /\ convs'[c].PendingCount = 0)
            => convs'[c].State = ConvStateActive
       /\ convs'[c].State = ConvStateIdle => convs'[c].PendingCount = 0]_vars

\* a conversation with history whose last pending message was answered
C31_Witness ==
  \E c \in ConvIds :
    /\ convs[c].State = ConvStateActive
    /\ convs[c].PendingCount = 0
    /\ Len(convs[c].Messages) >= 2
    /\ \E k \in 1..Len(convs[c].Messages) : ~convs[c].Messages[k].IsFromHuman

\* one step of worker w of mailbox b: a round of processLoop's select or
\* the return of processMessage
WorkerStep(b, w) ==
  /\ b \in BoxIds
  /\ w <= Len(workers[b])
  /\ \/ WorkerCtxDone(b, w)
     \/ WorkerReceive(b, w)
     \/ WorkerChanClosed(b, w)
     \/ ProcessNoHandler(b, w)
     \/ \E err \in BOOLEAN : ProcessUserHandler(b, w, err)

\* every goroutine is scheduled and every handler invocation returns
SpecMboxLive ==
  /\ SpecMbox
  /\ \A b \in 1..MboxBoxes, w \in 1..MaxWorkers : WF_vars(WorkerStep(b, w))

\* C32: once a mailbox is stopped, eventually every processLoop started
\* on it has returned (or the process has ended in a panic, which ends
\* every goroutine).
C32_WorkersTerminateAfterStop ==
  \A b \in 1..MboxBoxes :
    (b \in BoxIds /\ boxes[b].cancelled)
      ~> (panicked \/ (b \in BoxIds /\ Running(b) = {}))

\* a stopped mailbox both of whose workers have returned, one of them
\* after handling a message that was still buffered
C32_Witness ==
  \E b \in BoxIds :
    /\ ~panicked
    /\ boxes[b].cancelled
    /\ Len(workers[b]) = 2
    /\ Running(b) = {}
    /\ \E k \in 1..Len(handled[b]) : handled[b][k].late

(***************************************************************************)
(* The locks of the ConversationManager, one step per acquisition.  cm.mu *)
(* is held by the reaper for a whole scan and by CloseConversation for    *)
(* the whole call; both take the c.mu of a conversation while they hold   *)
(* it.  A routing call takes cm.mu only inside GetOrCreateConversation    *)
(* and each c.mu only inside one Conversation method.                     *)
(***************************************************************************)
LockProcs == {"g1", "g2"}

\* defer c.mu.Unlock() of a Conversation method
ConvUnlockKeeps(holder) == holder

ConvUnlock(holder) == "free"

\* the hub in operation, two gateway goroutines
InitLocks ==
  /\ boxes = <<HubMailbox("agent")>>
  /\ workers = <<StartBox(<<>>)>>
  /\ mailboxes = [a \in Range(AllAgentTypes) |->
                    IF a = AgentMaster THEN 1 ELSE 0]
  /\ convs = <<>>
  /\ conversations = [r \in Rooms |-> 0]
  /\ cmLock = "free"
  /\ convLock = [c \in 1..MaxConvs |-> "free"]
  /\ cmCancelled = FALSE
  /\ reaper = ReaperWaiting
  /\ now = 0
  /\ procs = [p \in LockProcs |-> IdleProc]
  /\ bus = {}
  /\ sent = <<>>
  /\ handled = <<<<>>>>
  /\ panicked = FALSE
  /\ posted = {}
  /\ running = TRUE
  /\ mainChannelID = MainChannel
  /\ botUserID = [a \in Range(AllAgentTypes) |->
                    IF a = AgentMaster THEN AccountID[a] ELSE ""]
  /\ text = <<>>
  /\ result = NoResult

\* routing: conv := GetOrCreateConversation(channelID), all under cm.mu
LkGetOrCreate(p, room) ==
  /\ At(p, "idle")
  /\ CanGetOrCreate(room)
  /\ \A c \in ConvIds : Len(convs[c].Messages) < MaxMsgs
  /\ convs' = GetOrCreateConvs(room)
  /\ conversations' = GetOrCreateRegistry(room)
  /\ procs' = [procs EXCEPT ![p] =
                 [IdleProc EXCEPT !.pc = "lk_lock", !.room = room, !.i = 1,
                                  !.conv = GetOrCreateHandle(room)]]
  /\ UNCHANGED <<textVars, chatVars, convLock, mboxVars, cmLock, cmCancelled,
                 reaper, now, bus, sent, handled, panicked>>

\* c.mu.Lock() of conv.AddMessage (i = 1) and conv.IncrementPending (i = 2)
LkConvLock(p) ==
  /\ At(p, "lk_lock")
  /\ convLock[procs[p].conv] = "free"
  /\ convLock' = [convLock EXCEPT ![procs[p].conv] = p]
  /\ procs' = [procs EXCEPT ![p].pc = "lk_op"]
  /\ UNCHANGED <<textVars, chatVars, mboxVars, convVars, cmLock, cmCancelled,
                 reaper, now, bus, sent, handled, panicked>>

\* the body of the method and its deferred unlock
LkConvOp(p) ==
  /\ At(p, "lk_op")
  /\ convs' = OnConv(p, IF procs[p].i = 1
                          THEN AddMessage(convs[procs[p].conv],
                                 ConversationMessage(0, Human, <<>>, TRUE), now)
                          ELSE IncrementPending(convs[procs[p].conv]))
  /\ convLock' = [convLock EXCEPT ![procs[p].conv] = ConvUnlock(p)]
  /\ procs' = [procs EXCEPT ![p] =
                 IF procs[p].i = 1 THEN [@ EXCEPT !.pc = "lk_lock", !.i = 2]
                 ELSE IdleProc]
  /\ UNCHANGED <<textVars, chatVars, mboxVars, conversations, cmLock,
                 cmCancelled, reaper, now, bus, sent, handled, panicked>>

\* CloseConversation: cm.mu.Lock() and the lookup
LkCloseEnter(p, room) ==
  /\ At(p, "idle")
  /\ cmLock = "free"
  /\ conversations[room] # 0
  /\ cmLock' = p
  /\ procs' = [procs EXCEPT ![p] =
                 [IdleProc EXCEPT !.pc = "lk_close_lock", !.room = room,
                                  !.conv = conversations[room]]]
  /\ UNCHANGED <<textVars, chatVars, convLock, mboxVars, convVars, cmCancelled,
                 reaper, now, bus, sent, handled, panicked>>

\* CloseConversation: conv.mu.Lock()
LkCloseConvLock(p) ==
  /\ At(p, "lk_close_lock")
  /\ convLock[procs[p].conv] = "free"
  /\ convLock' = [convLock EXCEPT ![procs[p].conv] = p]
  /\ procs' = [procs EXCEPT ![p].pc = "lk_close"]
  /\ UNCHANGED <<textVars, chatVars, mboxVars, convVars, cmLock, cmCancelled,
                 reaper, now, bus, sent, handled, panicked>>

\* CloseConversation: conv.State = ConvStateClosed, conv.mu.Unlock()
LkCloseMark(p) ==
  /\ At(p, "lk_close")
  /\ convs' = OnConv(p, [convs[procs[p].conv] EXCEPT !.State = ConvStateClosed])
  /\ convLock' = [convLock EXCEPT ![procs[p].conv] = ConvUnlock(p)]
  /\ procs' = [procs EXCEPT ![p].pc = "lk_close_del"]
  /\ UNCHANGED <<textVars, chatVars, mboxVars, conversations, cmLock,
                 cmCancelled, reaper, now, bus, sent, handled, panicked>>

\* CloseConversation: delete(cm.conversations, channelID), cm.mu.Unlock()
LkCloseExit(p) ==
  /\ At(p, "lk_close_del")
  /\ conversations' = [conversations EXCEPT ![procs[p].room] = 0]
  /\ cmLock' = "free"
  /\ procs' = [procs EXCEPT ![p] = IdleProc]
  /\ UNCHANGED <<textVars, chatVars, mboxVars, convs, convLock, cmCancelled,
                 reaper, now, bus, sent, handled, panicked>>

ReaperHolds == \E c \in ConvIds : convLock[c] = "reaper"

\* cleanupIdleConversations: conv.mu.RLock() in the first loop, conv.mu.Lock()
\* in the second
LkReaperLock(room) ==
  /\ Live
  /\ \/ reaper.pc = "scan" /\ room \in reaper.todo
     \/ reaper.pc = "close" /\ room \in reaper.toDelete
  /\ ~ReaperHolds
  /\ convLock[conversations[room]] = "free"
  /\ convLock' = [convLock EXCEPT ![conversations[room]] = "reaper"]
  /\ UNCHANGED <<textVars, chatVars, mboxVars, convVars, cmLock, cmCancelled,
                 reaper, now, procs, bus, sent, handled, panicked>>

\* first loop: the read of isIdle and conv.mu.RUnlock()
LkReaperScan(room) ==
  /\ Live
  /\ reaper.pc = "scan"
  /\ room \in reaper.todo
  /\ convLock[conversations[room]] = "reaper"
  /\ convLock' = [convLock EXCEPT ![conversations[room]] = ConvUnlock("reaper")]
  /\ LET del == IF IsIdleAt(convs[conversations[room]], reaper.now)
                  THEN reaper.toDelete \cup {room} ELSE reaper.toDelete
         todo == reaper.todo \ {room}
     IN IF todo = {} /\ del = {}
          THEN reaper' = ReaperWaiting /\ cmLock' = "free"
          ELSE /\ reaper' = [reaper EXCEPT !.todo = todo, !.toDelete = del,
                                           !.pc = IF todo = {} THEN "close" ELSE "scan"]
               /\ UNCHANGED cmLock
  /\ UNCHANGED <<textVars, chatVars, mboxVars, convVars, cmCancelled, now,
                 procs, bus, sent, handled, panicked>>

\* second loop: conv.State = ConvStateClosed, conv.mu.Unlock(); the room
\* of the iteration is kept in reaper.todo until its delete
LkReaperMark(room) ==
  /\ Live
  /\ reaper.pc = "close"
  /\ room \in reaper.toDelete
  /\ convLock[conversations[room]] = "reaper"
  /\ convLock' = [convLock EXCEPT ![conversations[room]] = ConvUnlock("reaper")]
  /\ convs' = [convs EXCEPT ![conversations[room]].State = ConvStateClosed]
  /\ reaper' = [reaper EXCEPT !.pc = "delete", !.todo = {room}]
  /\ UNCHANGED <<textVars, chatVars, mboxVars, conversations, cmLock,
                 cmCancelled, now, procs, bus, sent, handled, panicked>>

\* second loop: delete(cm.conversations, channelID); after the last room
\* the deferred cm.mu.Unlock()
LkReaperClose(room) ==
  /\ Live
  /\ reaper.pc = "delete"
  /\ room \in reaper.todo
  /\ conversations' = [conversations EXCEPT ![room] = 0]
  /\ IF reaper.toDelete = {room}
       THEN reaper' = ReaperWaiting /\ cmLock' = "free"
       ELSE /\ reaper' = [reaper EXCEPT !.toDelete = @ \ {room}, !.todo = {},
                                        !.pc = "close"]
            /\ UNCHANGED cmLock
  /\ UNCHANGED <<textVars, chatVars, mboxVars, convs, convLock, cmCancelled,
                 now, procs, bus, sent, handled, panicked>>

\* the steps of calls and scans under way
LockStep ==
  \/ \E p \in LockProcs : LkConvLock(p)
  \/ \E p \in LockProcs : LkConvOp(p)
  \/ \E p \in LockProcs : LkCloseConvLock(p)
  \/ \E p \in LockProcs : LkCloseMark(p)
  \/ \E p \in LockProcs : LkCloseExit(p)
  \/ \E r \in Rooms : LkReaperLock(r)
  \/ \E r \in Rooms : LkReaperScan(r)
  \/ \E r \in Rooms : LkReaperMark(r)
  \/ \E r \in Rooms : LkReaperClose(r)

NextLocks ==
  \/ \E p \in LockProcs, r \in Rooms : LkGetOrCreate(p, r)
  \/ \E p \in LockProcs, r \in Rooms : LkCloseEnter(p, r)
  \/ Tick
  \/ ReaperTick
  \/ LockStep

SpecLocks == InitLocks /\ [][NextLocks]_vars

\* tasks that hold c (a conversation lock) or the registry lock
HoldsConv(h) == \E c \in 1..MaxConvs : convLock[c] = h

\* C33: whenever a call or a scan is under way, one of them can take its
\* next step; and the step in which a task takes the registry lock is
\* taken while that task holds no conversation lock.
C33_NoDeadlockLockOrder ==
  /\ []((cmLock = "reaper" \/ \E p \in LockProcs : procs[p].pc # "idle")
          => ENABLED LockStep)
  /\ [][(cmLock = "free" /\ cmLock' # "free") => ~HoldsConv(cmLock')]_vars

\* the reaper holds the registry lock and waits for the lock of a
\* conversation that a routing call is writing to
C33_Witness ==
  \E p \in LockProcs :
    /\ procs[p].pc = "lk_op"
    /\ cmLock = "reaper"
    /\ reaper.pc = "scan"
    /\ convLock[procs[p].conv] = p
    /\ conversations[procs[p].room] = procs[p].conv

\* C34: a worker that has taken a message from the queue leaves
\* processMessage only with one handler invocation for that message made.
C34_ReceivedIsHandled ==
  [][\A b \in BoxIds : \A w \in 1..Len(workers[b]) :
       (workers[b][w].pc = "process" /\ workers'[b][w].pc # "process")
         => /\ Len(handled'[b]) = Len(handled[b]) + 1
            /\ LastOf(handled'[b]).id = workers[b][w].msg.ID]_vars

\* C35: every step that raises the PendingCount of a conversation or
\* appends to its history acts on the conversation registered for its room.
C35_UpdatesLandOnRegistered ==
  [][\A c \in ConvIds :
       (\/ convs'[c].PendingCount > convs[c].PendingCount
        \/ Len(convs'[c].Messages) > Len(convs[c].Messages))
         => /\ conversations[convs[c].ChannelID] = c
            /\ convs[c].State # ConvStateClosed]_vars

\* C36: the recent history that handleAgentMessage reads to build its
\* context has the entry of the utterance the ActorMessage came from: a
\* human entry for a message routed by RouteFromHuman, the entry with the
\* message's id for one routed by RouteToAgent.
C36_ContextHasUtterance ==
  [][\A b \in BoxIds : \A w \in 1..Len(workers[b]) :
       HandlerBuildContext(b, w)
         => LET msg == workers[b][w].msg
                h == workers'[b][w].ctx
            IN IF msg.From = Human
                 THEN \E k \in 1..Len(h) : h[k].IsFromHuman
                 ELSE \E k \in 1..Len(h) : h[k].ID = msg.ID]_vars

\* C37: when the post of a persona reply fails (a chunk of SendAsAgent
\* returns an error or times out), SendAgentResponse returns at once:
\* HandleAgentResponse is not entered, no mention is routed or enqueued, and
\* the conversations (pending count, state, history) and the registry are
\* as before the call.
C37_FailedPostChangesNothing ==
  [][\A p \in Procs : \A req \in bus : \A m \in MentionLists :
       \A n \in 1..MaxChunks : \A failAt \in 1..n :
         SendAgentResponse(p, req, m, n, failAt)
           => /\ procs'[p].pc = "idle"
              /\ convs' = convs
              /\ conversations' = conversations
              /\ boxes' = boxes
              /\ sent' = sent]_vars

\* a reply was taken from the bus and its post failed after the first chunk:
\* the handled message's room still has its pending reply and no persona entry
C37_Witness ==
  /\ bus = {}
  /\ \A p \in Procs : procs[p].pc = "idle"
  /\ posted # {}
  /\ \E b \in BoxIds : Len(handled[b]) > 0
  /\ \A b \in BoxIds : boxes[b].messages = <<>>
  /\ \A b \in BoxIds : \A w \in 1..Len(workers[b]) : workers[b][w].pc = "select"
  /\ \E r \in Rooms :
       /\ conversations[r] # 0
       /\ convs[conversations[r]].PendingCount = 1
       /\ convs[conversations[r]].State = ConvStateProcessing
       /\ \A k \in 1..Len(convs[conversations[r]].Messages) :
            convs[conversations[r]].Messages[k].IsFromHuman

\* C38: while SendAgentResponse processes a reply whose first mention is a
\* registered persona with room in its mailbox, the room's registered
\* conversation is not quiescent between the DecrementPending of
\* HandleAgentResponse and the IncrementPending of the first RouteToAgent:
\* its pending count is above 0 and its state is Processing.
C38_NoQuiescentGapInReply ==
  \A p \in Procs :
    (/\ procs[p].pc \in {"har_add", "rta_get"}
     /\ Len(procs[p].targets) > 0
     /\ MailboxOf(procs[p].targets[1]) # 0
     /\ Len(boxes[MailboxOf(procs[p].targets[1])].messages)
          < boxes[MailboxOf(procs[p].targets[1])].capacity
     /\ conversations[procs[p].room] # 0)
      => /\ convs[conversations[procs[p].room]].PendingCount > 0
         /\ convs[conversations[procs[p].room]].State = ConvStateProcessing

\* C39: whenever the registry can be read (cm.mu is free) each room's entry
\* is one conversation of that room that is not Closed; a conversation is
\* marked Closed only while it is registered and cm.mu is held, and cm.mu is
\* kept over the mark until the entry is removed; GetOrCreateConversation
\* returns the registered object, never a Closed one, and the same object
\* another call under way holds for the room while it is registered.
C39_RegistryHoldsOpenRooms ==
  /\ [](cmLock = "free"
          => \A r \in Rooms :
               conversations[r] # 0
                 => /\ conversations[r] \in ConvIds
                    /\ convs[conversations[r]].ChannelID = r
                    /\ convs[conversations[r]].State # ConvStateClosed)
  /\ [][\A c \in ConvIds :
          (convs[c].State # ConvStateClosed /\ convs'[c].State = ConvStateClosed)
            => /\ cmLock # "free"
               /\ cmLock' = cmLock
               /\ conversations[convs[c].ChannelID] = c]_vars
  /\ [][\A p \in LockProcs : \A r \in Rooms :
          LkGetOrCreate(p, r)
            => /\ procs'[p].conv = conversations'[r]
               /\ convs'[procs'[p].conv].State # ConvStateClosed
               /\ \A q \in LockProcs \ {p} :
                    (/\ procs[q].pc \in {"lk_lock", "lk_op"}
                     /\ procs[q].room = r
                     /\ conversations[r] = procs[q].conv)
                      => procs'[p].conv = procs[q].conv]_vars

\* the room was closed and created again, and two calls under way both hold
\* the new conversation
C39_Witness ==
  /\ Len(convs) = 2
  /\ convs[1].State = ConvStateClosed
  /\ cmLock = "free"
  /\ \E r \in Rooms :
       /\ conversations[r] = 2
       /\ convs[1].ChannelID = r
       /\ \A p \in LockProcs :
            /\ procs[p].pc \in {"lk_lock", "lk_op"}
            /\ procs[p].room = r
            /\ procs[p].conv = 2

====
